---- MODULE Spec2Model ----
(***************************************************************************)
(* Model of the client-side query / cache / result coordination layer of   *)
(* the bible-study front end:                                              *)
(*   - the search bar coordinator (SearchBar.svelte): debounced keystrokes,*)
(*     forced submit, the asynchronous performSearch, clearSearch;         *)
(*   - the response caches of the SWORD API (verseCache) and the geography *)
(*     API (placesCache);                                                  *)
(*   - the pure helper getConfidenceLevel.                                 *)
(* Each part has its own specification; the variables of the other parts   *)
(* keep their initial values.                                              *)
(***************************************************************************)
EXTENDS Integers, Sequences, FiniteSets, TLC

VARIABLES
    \* ---- SearchBar.svelte ----
    query,            \* let query (SearchBar.svelte:15)
    searchQuery,      \* the searchQuery store, kept equal to query by set/subscribe
    debounceTimer,    \* let debounceTimer: handle of the last setTimeout, 0 = undefined
    timers,           \* the event loop's pending timeouts: handle -> ms elapsed since set
    inflight,         \* awaited searchBible calls, in dispatch order
    isSearching,      \* the isSearching store
    searchError,      \* the searchError store
    searchResults,    \* the searchResults store
    mounted,          \* the SearchBar component is on the page
    \* ---- history of the coordinator (observers, not program state) ----
    lastOp,           \* what the last step did
    prevResults,      \* searchResults before the last step, if it was a keystroke or a completion
    lastResponse,     \* what the collaborator returned, if the last step was a successful completion
    unhandled,        \* a rejection escaped performSearch
    quiet,            \* ms since the last keystroke (saturating at DEBOUNCE_MS)
    lastKey,          \* text of the last keystroke, NoKey after clearSearch / at start
    superseded,       \* text of the keystroke before the last, if its timer was still pending
    forced,           \* a forced submit dispatched a search since the last keystroke
    burstLog,         \* searches the debounce timer dispatched since the last keystroke
    lastDone,         \* marks of the request whose success was the last step
    observing,        \* the marks of awaited calls are being recorded (RaceSpec)
    \* ---- routes/languages/+page.svelte ----
    url,              \* $page.url.searchParams: book, chapter, verse, view
    pageInitialBook,  \* let initialBook (of the page)
    pageInitialChapter,
    pageInitialVerse,
    currentView,      \* let currentView
    pageStage,        \* "opening" until the page's onMount has run, then "mounted"
    \* ---- LanguageViewer.svelte ----
    viewerStage,      \* "none" (no instance), "created" (script has run), "mounted"
    initialBook,      \* export let initialBook
    initialChapter,
    initialVerse,
    currentTab,
    selectedBook,
    selectedChapter,
    selectedVerse,
    verseData,
    viewerLoading,    \* let loading (of the viewer)
    viewerError,      \* let error (of the viewer)
    dirty,            \* viewer variables invalidated since the last flush
    loads,            \* loadVerse calls past their await, oldest first, with what they await
    langEvent,        \* observer: the last lifecycle or user event
    \* ---- sword.ts / geography.ts caches ----
    now,              \* Date.now(), ms
    verseCache,       \* const verseCache = new Map()
    placesCache,      \* let placesCache
    pendingFetch,     \* fetchBiblicalPlaces calls awaiting the collaborator
    lastCall,         \* observer: the last cache-backed call and what it did
    \* ---- getConfidenceLevel ----
    score,
    level,
    \* ---- geography.ts calls without a cache ----
    apiPending,       \* getPlaceDetails / searchPlacesByName calls awaiting the collaborator
    apiCall,          \* observer: the last call that completed, what it was given and did
    \* ---- routes/geography/+page.svelte ----
    places,           \* let places
    filteredPlaces,   \* let filteredPlaces
    loading,          \* let loading
    error,            \* let error
    geoQuery,         \* let searchQuery (of the geography page)
    selectedPlaceType,
    selectedConfidence,
    mountStage,       \* where onMount stands: "fetching", "searching" or "done"
    pageSearches,     \* handleSearch calls awaiting searchPlacesByName
    pageOp,           \* observer: what the last step of the page was
    \* ---- SearchBar.svelte exports ----
    downloads,        \* files handed to the browser by a.click()
    exportsTried,     \* observer: which export buttons' handlers have run
    lastExport        \* observer: the last export handler and whether it produced a file

searchVars == <<query, searchQuery, debounceTimer, timers, inflight, isSearching,
                searchError, searchResults, mounted, lastOp, prevResults, lastResponse,
                unhandled, quiet, lastKey, superseded, forced, burstLog,
                lastDone>>
cacheVars == <<now, verseCache, placesCache, pendingFetch, lastCall>>
confVars == <<score, level>>
apiVars == <<apiPending, apiCall>>
pageVars == <<places, filteredPlaces, loading, error, geoQuery, selectedPlaceType,
              selectedConfidence, mountStage, pageSearches, pageOp>>
exportVars == <<downloads, exportsTried, lastExport>>
raceVars == <<observing>>
langPageVars == <<url, pageInitialBook, pageInitialChapter, pageInitialVerse, currentView,
                  pageStage>>
viewerVars == <<viewerStage, initialBook, initialChapter, initialVerse, currentTab,
                selectedBook, selectedChapter, selectedVerse, verseData, viewerLoading,
                viewerError, dirty, loads, langEvent>>
langVars == <<langPageVars, viewerVars>>
vars == <<searchVars, cacheVars, confVars, apiVars, pageVars, exportVars, raceVars,
          langVars>>

\* what the steps of one component leave alone
otherThanSearch == <<cacheVars, confVars, apiVars, pageVars, exportVars, raceVars, langVars>>
otherThanCache == <<searchVars, confVars, apiVars, pageVars, exportVars, raceVars, langVars>>
otherThanConf == <<searchVars, cacheVars, apiVars, pageVars, exportVars, raceVars, langVars>>
otherThanApi == <<searchVars, cacheVars, confVars, pageVars, exportVars, raceVars, langVars>>
otherThanPage == <<searchVars, cacheVars, confVars, apiVars, exportVars, raceVars, langVars>>
otherThanLanguages == <<searchVars, confVars, apiVars, pageVars, exportVars, raceVars>>
otherThanExport == <<searchVars, cacheVars, confVars, apiVars, pageVars, raceVars, langVars>>

NULL == "null"
\* "no keystroke": a value of the shape of a text that is no text
NoKey == <<"(none)">>

(***************************************************************************)
(* Texts.  A text is a sequence of characters; " " is whitespace.          *)
(***************************************************************************)
Texts ==
    { <<>>,
      <<"a", "b">>,
      <<" ", " ", " ">>,
      <<" ", "a", "b", " ">>,
      <<"a", "b", "c">>,
      <<" ", "a", "b", "c", " ">> }

IsSpace(c) == c = " "

RECURSIVE TrimStart(_)
TrimStart(s) ==
    IF s = <<>> THEN <<>>
    ELSE IF IsSpace(Head(s)) THEN TrimStart(Tail(s)) ELSE s

RECURSIVE TrimEnd(_)
TrimEnd(s) ==
    IF s = <<>> THEN <<>>
    ELSE IF IsSpace(s[Len(s)]) THEN TrimEnd(SubSeq(s, 1, Len(s) - 1)) ELSE s

\* String.prototype.trim
Trim(s) == TrimEnd(TrimStart(s))

TrimLen(s) == Len(Trim(s))

(***************************************************************************)
(* Bounds and program constants of the search coordinator.                 *)
(***************************************************************************)
DEBOUNCE_MS == 500     \* setTimeout(..., 500)
MIN_QUERY == 3         \* query.trim().length < 3
TickMs == 250          \* granularity of the coordinator's clock
MaxInFlight == 2       \* awaited searchBible calls modelled at once
MaxResults == 2        \* length of a collaborator response

SEARCH_FAILED == "Search failed. Please check that Prism is running."

\* A search result is represented by its similarity score (percent).
Sims == {50, 87}

Min(a, b) == IF a < b THEN a ELSE b

Range(f) == {f[i] : i \in DOMAIN f}

\* the sequences of at most n distinct elements of S, in every order
RECURSIVE SeqsUpTo(_, _)
SeqsUpTo(S, n) ==
    IF n = 0 THEN {<<>>}
    ELSE LET shorter == SeqsUpTo(S, n - 1)
         IN  shorter \cup UNION {{Append(r, x) : x \in S \ Range(r)} :
                                    r \in {q \in shorter : Len(q) = n - 1}}

\* What searchBible can resolve to: distinct results in the collaborator's order,
\* whatever that order is.
Responses == SeqsUpTo(Sims, MaxResults)

RemoveAt(s, i) == SubSeq(s, 1, i - 1) \o SubSeq(s, i + 1, Len(s))

\* setTimeout returns a handle that no pending timeout has.
FreshHandle(ts) == CHOOSE h \in 1..(Cardinality(DOMAIN ts) + 1) : h \notin DOMAIN ts

(***************************************************************************)
(* handleInput (SearchBar.svelte:21-36)                                    *)
(***************************************************************************)
\* clearTimeout(debounceTimer): the timeout with that handle, if pending, is dropped.
ClearTimeout_skip(ts, h) == ts
ClearTimeout(ts, h) == [k \in DOMAIN ts \ {h} |-> ts[k]]

\* if (query.trim().length > 2)
LongEnough_raw(q) == Len(q) > 2
LongEnough(q) == TrimLen(q) > 2

\* else { searchResults.set([]) }
ShortInputResults_keep(rs) == rs
ShortInputResults(rs) == <<>>

\* performSearch: if (query.trim().length < 3) return;
TooShort_never(q) == FALSE
TooShort(q) == TrimLen(q) < MIN_QUERY

\* searchResults.set(results)
ResultsOnSuccess_merge(old, results) ==
    LET all == old \o results IN SubSeq(all, 1, Min(Len(all), MaxResults))
ResultsOnSuccess(old, results) == results

\* catch: searchError.set('Search failed. ...')
ErrorOnFailure_swallow(old) == old
ErrorOnFailure(old) == SEARCH_FAILED

\* finally: isSearching.set(false)
SearchingOnExit_stuck(old) == old
SearchingOnExit(old) == FALSE

\* try { ... } catch (error) { ... }: no rejection of searchBible leaves performSearch
RejectionEscapes == FALSE

\* marks carried by an awaited call: the results were cleared while it was in
\* flight; the response of a search dispatched after it was already displayed
NoMarks == [cleared |-> FALSE, stale |-> FALSE]
MarkCleared(calls) ==
    IF observing
    THEN [k \in 1..Len(calls) |-> [calls[k] EXCEPT !.cleared = TRUE]]
    ELSE calls
MarkStaleBefore(calls, i) ==
    IF observing
    THEN [k \in 1..Len(calls) |->
              IF k < i THEN [calls[k] EXCEPT !.stale = TRUE] ELSE calls[k]]
    ELSE calls

handleInput(t) ==
    /\ mounted
    /\ query' = t
    /\ searchQuery' = t
    /\ LET cleared == ClearTimeout(timers, debounceTimer)
           h == FreshHandle(cleared)
       IN  IF LongEnough(t)
           THEN /\ timers' = [k \in DOMAIN cleared \cup {h} |->
                                 IF k = h THEN 0 ELSE cleared[k]]
                /\ debounceTimer' = h
                /\ searchResults' = searchResults
                /\ inflight' = inflight
           ELSE /\ timers' = cleared
                /\ debounceTimer' = debounceTimer
                /\ searchResults' = ShortInputResults(searchResults)
                /\ inflight' = MarkCleared(inflight)
    /\ lastOp' = "input"
    /\ prevResults' = searchResults
    /\ quiet' = 0
    /\ lastKey' = t
    /\ superseded' = IF debounceTimer \in DOMAIN timers THEN lastKey ELSE NoKey
    /\ forced' = FALSE
    /\ burstLog' = <<>>
    /\ lastResponse' = <<>>
    /\ lastDone' = NoMarks
    /\ UNCHANGED <<isSearching, searchError, unhandled, mounted>>

(***************************************************************************)
(* performSearch (SearchBar.svelte:38-60), up to the await.                *)
(* The part after the await is Resolve / Reject below.                     *)
(***************************************************************************)
performSearchStart(via) ==
    IF TooShort(query)
    THEN /\ lastOp' = "early"
         /\ UNCHANGED <<inflight, isSearching, searchError, forced, burstLog>>
    ELSE /\ Len(inflight) < MaxInFlight
         /\ isSearching' = TRUE
         /\ searchError' = NULL
         /\ inflight' = Append(inflight, [text |-> query, cleared |-> FALSE,
                                          stale |-> FALSE])
         /\ IF via = "timer"
            THEN /\ burstLog' = Append(burstLog, [text |-> query, quiet |-> quiet,
                                                  forced |-> forced])
                 /\ forced' = forced
            ELSE /\ forced' = TRUE
                 /\ burstLog' = burstLog
         /\ lastOp' = via

\* The debounce timeout with handle h runs: () => { performSearch(); }
TimerFires(h) ==
    /\ h \in DOMAIN timers
    /\ timers[h] >= DEBOUNCE_MS
    /\ timers' = [k \in DOMAIN timers \ {h} |-> timers[k]]
    /\ performSearchStart("timer")
    /\ prevResults' = <<>>
    /\ lastResponse' = <<>>
    /\ lastDone' = NoMarks
    /\ UNCHANGED <<query, searchQuery, debounceTimer, searchResults, mounted,
                   unhandled, quiet, lastKey, superseded>>

(***************************************************************************)
(* handleSubmit (SearchBar.svelte:62-67)                                   *)
(***************************************************************************)
handleSubmit ==
    /\ mounted
    /\ IF LongEnough(query)
       THEN performSearchStart("submit")
       ELSE /\ lastOp' = "ignored"
            /\ UNCHANGED <<inflight, isSearching, searchError, forced, burstLog>>
    /\ prevResults' = <<>>
    /\ lastResponse' = <<>>
    /\ lastDone' = NoMarks
    /\ UNCHANGED <<query, searchQuery, debounceTimer, timers, searchResults, mounted,
                   unhandled, quiet, lastKey, superseded>>

(***************************************************************************)
(* performSearch after the await: try / catch / finally                    *)
(***************************************************************************)
\* searchBible resolved with results
Resolve(i, results) ==
    /\ i \in 1..Len(inflight)
    /\ inflight' = RemoveAt(MarkStaleBefore(inflight, i), i)
    /\ lastDone' = [cleared |-> inflight[i].cleared, stale |-> inflight[i].stale]
    /\ searchResults' = ResultsOnSuccess(searchResults, results)
    /\ isSearching' = SearchingOnExit(isSearching)
    /\ lastOp' = "success"
    /\ prevResults' = searchResults
    /\ lastResponse' = results
    /\ UNCHANGED <<query, searchQuery, debounceTimer, timers, searchError, mounted,
                   unhandled, quiet, lastKey, superseded, forced, burstLog>>

\* searchBible rejected
Reject(i) ==
    /\ i \in 1..Len(inflight)
    /\ inflight' = RemoveAt(inflight, i)
    /\ lastDone' = NoMarks
    /\ searchError' = ErrorOnFailure(searchError)
    /\ isSearching' = SearchingOnExit(isSearching)
    /\ lastOp' = "failure"
    /\ prevResults' = searchResults
    /\ lastResponse' = <<>>
    /\ unhandled' = (unhandled \/ RejectionEscapes)
    /\ UNCHANGED <<query, searchQuery, debounceTimer, timers, searchResults, mounted,
                   quiet, lastKey, superseded, forced, burstLog>>

(***************************************************************************)
(* clearSearch (SearchBar.svelte:69-74); its button is rendered {#if query}*)
(***************************************************************************)
clearSearch ==
    /\ mounted
    /\ query # <<>>
    /\ query' = <<>>
    /\ searchQuery' = <<>>
    /\ searchResults' = <<>>
    /\ searchError' = NULL
    /\ lastOp' = "clear"
    /\ prevResults' = <<>>
    /\ lastResponse' = <<>>
    /\ lastKey' = NoKey
    /\ inflight' = MarkCleared(inflight)
    /\ lastDone' = NoMarks
    /\ UNCHANGED <<debounceTimer, timers, isSearching, mounted,
                   unhandled, quiet, superseded, forced, burstLog>>

\* TickMs milliseconds pass.
Tick ==
    /\ \/ quiet < DEBOUNCE_MS
       \/ \E h \in DOMAIN timers : timers[h] < DEBOUNCE_MS
    /\ timers' = [h \in DOMAIN timers |-> Min(timers[h] + TickMs, DEBOUNCE_MS)]
    /\ quiet' = Min(quiet + TickMs, DEBOUNCE_MS)
    /\ lastOp' = "tick"
    /\ prevResults' = <<>>
    /\ lastResponse' = <<>>
    /\ UNCHANGED <<query, searchQuery, debounceTimer, inflight, isSearching,
                   searchError, searchResults, mounted, unhandled, lastKey,
                   superseded, forced, burstLog>>
    /\ lastDone' = NoMarks

(***************************************************************************)
(* The component is destroyed (navigation away from /search).  The script  *)
(* registers no onDestroy: nothing of the component's state is touched, the*)
(* pending timeout and the awaited calls stay with the event loop.         *)
(***************************************************************************)
\* what teardown does to the pending timeouts: nothing
TimersOnDestroy(ts) == ts

teardown ==
    /\ mounted
    /\ mounted' = FALSE
    /\ timers' = TimersOnDestroy(timers)
    /\ lastOp' = "teardown"
    /\ prevResults' = <<>>
    /\ lastResponse' = <<>>
    /\ UNCHANGED <<query, searchQuery, debounceTimer, inflight, isSearching,
                   searchError, searchResults, unhandled, quiet, lastKey,
                   superseded, forced, burstLog>>
    /\ lastDone' = NoMarks


(***************************************************************************)
(* Response caches: verseCache (SWORD API) and placesCache (geography API) *)
(***************************************************************************)
CACHE_TTL_SWORD == 30 * 60 * 1000    \* const CACHE_TTL, SWORD API
CACHE_TTL_GEO == 10 * 60 * 1000      \* const CACHE_TTL, geography API
USE_MOCK_DATA == TRUE
DEFAULT_LIMIT == 100                 \* { limit = 100, offset = 0, ... } = params
TickCacheMs == 600000                \* granularity of the caches' clock
MaxNow == 1800000                    \* the caches are observed for 30 minutes
MaxFetches == 1                      \* fetchBiblicalPlaces calls awaiting at once
MaxDocs == 2                         \* documents in a collaborator listing

UNDEF == "undefined"
NoEntry == [present |-> FALSE]

\* JavaScript truthiness of an optional string
Truthy(x) == x # UNDEF /\ x # ""

\* Array.prototype.slice(offset, offset + limit) for offset, limit >= 0
Slice(xs, offset, limit) ==
    IF offset >= Len(xs) THEN <<>>
    ELSE SubSeq(xs, offset + 1, Min(offset + limit, Len(xs)))

\* cached && Date.now() - cached.timestamp < CACHE_TTL
Fresh_inclusive(entry, ttl) == entry.present /\ now - entry.timestamp <= ttl
Fresh(entry, ttl) == entry.present /\ now - entry.timestamp < ttl

Books == {"Genesis", "Exodus"}
Chapters == {1}
Verses == {1}

\* const cacheKey = `hebrew:${book}:${chapter}:${verse}`
HebrewKey(book, chapter, verse) == <<"hebrew", book, chapter, verse>>

MockSamples == {<<"Genesis", 1, 1>>, <<"Genesis", 1, 2>>, <<"Psalms", 23, 1>>, <<"Psalms", 23, 2>>}

getMockHebrewText(book, chapter, verse) ==
    [original_text |-> IF <<book, chapter, verse>> \in MockSamples
                       THEN <<"sample", book, chapter, verse>>
                       ELSE <<"sample", "Genesis", 1, 0>>,
     language |-> "hebrew", book |-> book, chapter |-> chapter, verse |-> verse]

VerseEntry(key) == IF key \in DOMAIN verseCache THEN verseCache[key] ELSE NoEntry

Age(entry) == IF entry.present THEN now - entry.timestamp ELSE -1

\* the call repeats the lookup made by the previous call, at the same instant
Repeated(fn, key) == lastCall.fn = fn /\ lastCall.key = key

\* getHebrewText with USE_MOCK_DATA = true: the whole call is synchronous
getHebrewText(book, chapter, verse) ==
    LET cacheKey == HebrewKey(book, chapter, verse)
        cached == VerseEntry(cacheKey)
    IN  /\ USE_MOCK_DATA
        /\ IF Fresh(cached, CACHE_TTL_SWORD)
           THEN /\ verseCache' = verseCache
                /\ lastCall' = [fn |-> "getHebrewText", key |-> cacheKey, hit |-> TRUE,
                                provider |-> FALSE, had |-> cached.present,
                                age |-> Age(cached), result |-> cached.data,
                                repeat |-> Repeated("getHebrewText", cacheKey)]
           ELSE LET data == getMockHebrewText(book, chapter, verse)
                IN  /\ verseCache' =
                           [k \in DOMAIN verseCache \cup {cacheKey} |->
                               IF k = cacheKey
                               THEN [present |-> TRUE, data |-> data, timestamp |-> now]
                               ELSE verseCache[k]]
                    /\ lastCall' = [fn |-> "getHebrewText", key |-> cacheKey, hit |-> FALSE,
                                    provider |-> TRUE, had |-> cached.present,
                                    age |-> Age(cached), result |-> data,
                                    repeat |-> Repeated("getHebrewText", cacheKey)]
        /\ UNCHANGED <<now, placesCache, pendingFetch>>

GreekBooks == {"John"}
GreekKey(book, chapter, verse) == <<"greek", book, chapter, verse>>
GreekSamples == {<<"John", 1, 1>>, <<"John", 1, 2>>, <<"John", 3, 16>>, <<"Matthew", 1, 1>>}

getMockGreekText(book, chapter, verse) ==
    [original_text |-> IF <<book, chapter, verse>> \in GreekSamples
                       THEN <<"sample", book, chapter, verse>>
                       ELSE <<"sample", "John", 1, 0>>,
     language |-> "greek", book |-> book, chapter |-> chapter, verse |-> verse]

\* getGreekText with USE_MOCK_DATA = true: it neither reads nor writes
\* verseCache, every call goes to the provider
getGreekText(book, chapter, verse) ==
    LET key == GreekKey(book, chapter, verse)
        cached == VerseEntry(key)
    IN  /\ USE_MOCK_DATA
        /\ lastCall' = [fn |-> "getGreekText", key |-> key, hit |-> FALSE,
                        provider |-> TRUE, had |-> cached.present,
                        age |-> Age(cached),
                        result |-> getMockGreekText(book, chapter, verse),
                        repeat |-> Repeated("getGreekText", key)]
        /\ UNCHANGED <<now, verseCache, placesCache, pendingFetch>>

\* ---- geography API ----
GEO_DOMAIN == "geography/biblical"

\* documents the collaborator may list: [id, domain, place_type, confidence]
\* ---- JSON values of the collaborator's documents ----
\* Fields that are only tested and copied (ids, domain, place_type) are strings
\* with UNDEF for a missing field; fields that are parsed or whose JSON type
\* varies are tagged values.
Undef == <<"undefined">>
NaN == <<"NaN">>
Num(n) == <<"number", n>>
Str(cs) == <<"string", cs>>
Arr(xs) == <<"array", xs>>

\* JavaScript truthiness of a tagged value
JsTruthy(v) ==
    CASE v[1] = "number" -> v[2] # 0
      [] v[1] = "string" -> v[2] # <<>>
      [] v[1] = "array" -> TRUE
      [] OTHER -> FALSE

\* v || d
OrElse(v, d) == IF JsTruthy(v) THEN v ELSE d

DigitVal == [c \in {"0", "1", "2", "3", "4", "5", "6", "7", "8", "9"} |->
                CASE c = "0" -> 0 [] c = "1" -> 1 [] c = "2" -> 2 [] c = "3" -> 3
                  [] c = "4" -> 4 [] c = "5" -> 5 [] c = "6" -> 6 [] c = "7" -> 7
                  [] c = "8" -> 8 [] c = "9" -> 9]

RECURSIVE LeadingDigits(_)
LeadingDigits(cs) ==
    IF cs # <<>> /\ Head(cs) \in DOMAIN DigitVal
    THEN <<Head(cs)>> \o LeadingDigits(Tail(cs))
    ELSE <<>>

RECURSIVE DigitsValue(_)
DigitsValue(ds) ==
    IF ds = <<>> THEN 0
    ELSE 10 * DigitsValue(SubSeq(ds, 1, Len(ds) - 1)) + DigitVal[ds[Len(ds)]]

\* parseFloat, for numbers and for strings of digits, letters and commas: the
\* longest numeric prefix, NaN when there is none
parseFloat(v) ==
    CASE v[1] = "number" -> v
      [] v[1] = "string" ->
            IF LeadingDigits(v[2]) = <<>> THEN NaN ELSE Num(DigitsValue(LeadingDigits(v[2])))
      [] OTHER -> NaN

\* the >= of getConfidenceLevel applied to a value that was not parsed: a
\* number compares as itself, a string as Number(string), anything else as NaN
ToNumber(v) ==
    CASE v[1] = "number" -> v
      [] v[1] = "string" ->
            IF v[2] = <<>> THEN Num(0)
            ELSE IF LeadingDigits(v[2]) = v[2] THEN Num(DigitsValue(v[2])) ELSE NaN
      [] OTHER -> NaN

RECURSIVE TakeUntil(_, _)
\* the prefix of cs before the first occurrence of the character c
TakeUntil(cs, c) ==
    IF cs = <<>> \/ Head(cs) = c THEN <<>>
    ELSE <<Head(cs)>> \o TakeUntil(Tail(cs), c)

RECURSIVE SplitComma(_)
\* cs.split(',').filter(Boolean)
SplitComma(cs) ==
    IF cs = <<>> THEN <<>>
    ELSE LET piece == TakeUntil(cs, ",")
             rest == IF Len(piece) = Len(cs) THEN <<>>
                     ELSE SubSeq(cs, Len(piece) + 2, Len(cs))
         IN  (IF piece = <<>> THEN <<>> ELSE <<piece>>) \o SplitComma(rest)

\* a document without a metadata object, and the empty metadata object {}
NoMetadata == [present |-> FALSE]
EmptyMetadata ==
    [present |-> TRUE, domain |-> UNDEF, name |-> Undef, latitude |-> Undef,
     longitude |-> Undef, place_type |-> UNDEF, confidence |-> Undef,
     verse_references |-> Undef, alternate_names |-> Undef]

GeoMeta(ptype, conf) ==
    [EmptyMetadata EXCEPT !.domain = GEO_DOMAIN, !.place_type = ptype,
                          !.confidence = conf]

Docs ==
    { [id |-> "d1", document_id |-> UNDEF, content |-> Str(<<"A", "i", ":", "x">>),
       metadata |-> GeoMeta("mountain", Num(350))],
      [id |-> "d2", document_id |-> UNDEF, content |-> Str(<<"U", "r">>),
       metadata |-> GeoMeta("city", Str(<<"5", "0">>))],
      [id |-> "d3", document_id |-> UNDEF, content |-> Undef,
       metadata |-> [EmptyMetadata EXCEPT !.domain = "bible/kjv"]] }

\* GET /api/v1/documents -> { documents, total }; total 0 stands for a missing
\* total, and one listing reports more documents than it carries
Listings ==
    [documents : SeqsUpTo(Docs, MaxDocs), total : {0}]
    \cup {[documents |-> <<d>>, total |-> 5] : d \in Docs}

\* !response.ok statuses; 0 stands for fetch itself throwing
Failures == {404, 503, 500, 0}

getConfidenceLevel_strict(s) ==
    IF s > 300 THEN "high" ELSE IF s > 80 THEN "moderate" ELSE "low"
getConfidenceLevel(s) ==
    IF s >= 300 THEN "high" ELSE IF s >= 80 THEN "moderate" ELSE "low"

\* firstLine.match(/^([^:]+)/): the text before the first colon, trimmed;
\* the whole first line when it starts with a colon
extractNameFromContent(content) ==
    IF ~JsTruthy(content) THEN Str(<<"U", "n", "k", "n", "o", "w", "n", " ", "P", "l", "a", "c", "e">>)
    ELSE LET firstLine == TakeUntil(content[2], "\n")
             match == TakeUntil(firstLine, ":")
         IN  IF match # <<>> THEN Str(Trim(match)) ELSE Str(firstLine)

\* metadata.verse_references / alternate_names: an array as it is, a string
\* split at commas, nothing as the empty array
ToList_raw(v) == v
ToList(v) ==
    IF v[1] = "array" THEN v ELSE Arr(SplitComma(OrElse(v, Str(<<>>))[2]))

transformDocumentToPlace(doc) ==
    LET metadata == IF doc.metadata.present THEN doc.metadata ELSE EmptyMetadata
        confidence == OrElse(parseFloat(metadata.confidence), Num(0))
    IN  [id |-> IF Truthy(doc.id) THEN doc.id ELSE doc.document_id,
         document_id |-> IF Truthy(doc.document_id) THEN doc.document_id ELSE doc.id,
         name |-> OrElse(metadata.name, extractNameFromContent(doc.content)),
         latitude |-> OrElse(parseFloat(metadata.latitude), Num(0)),
         longitude |-> OrElse(parseFloat(metadata.longitude), Num(0)),
         place_type |-> IF Truthy(metadata.place_type) THEN metadata.place_type
                        ELSE "unknown",
         confidence_score |-> confidence,
         confidence_level |-> getConfidenceLevel(confidence[2]),
         verse_references |-> ToList(metadata.verse_references),
         alternate_names |-> ToList(metadata.alternate_names),
         content |-> OrElse(doc.content, Str(<<>>))]

RECURSIVE FilterGeo(_)
\* data.documents.filter(doc => doc.metadata?.domain === 'geography/biblical')
FilterGeo(docs) ==
    IF docs = <<>> THEN <<>>
    ELSE IF Head(docs).metadata.present /\ Head(docs).metadata.domain = GEO_DOMAIN
         THEN <<Head(docs)>> \o FilterGeo(Tail(docs))
         ELSE FilterGeo(Tail(docs))

\* the place of each document of Docs
PlaceOf == [d \in Docs |-> transformDocumentToPlace(d)]

MapPlaces(docs) == [i \in 1..Len(docs) |-> PlaceOf[docs[i]]]

\* the arguments callers pass to fetchBiblicalPlaces
PlaceParams ==
    { [limit |-> 1, offset |-> 1, placeType |-> UNDEF, confidenceLevel |-> UNDEF],
      [limit |-> 50, offset |-> 0, placeType |-> "mountain", confidenceLevel |-> UNDEF],
      [limit |-> DEFAULT_LIMIT, offset |-> 0, placeType |-> "", confidenceLevel |-> UNDEF],
      [limit |-> DEFAULT_LIMIT, offset |-> 0, placeType |-> UNDEF, confidenceLevel |-> "high"] }

\* !placeType && !confidenceLevel
Unfiltered_always(params) == TRUE
Unfiltered(params) == ~Truthy(params.placeType) /\ ~Truthy(params.confidenceLevel)

\* the response built from the cached listing
ServedFromCache(entry, params) ==
    [places |-> Slice(entry.data, params.offset, params.limit),
     total |-> Len(entry.data)]

\* what a successful unfiltered fetch stores: placesCache = { data: allPlaces, ... }
CachedListing_page(allPlaces, params) == Slice(allPlaces, params.offset, params.limit)
CachedListing(allPlaces, params) == allPlaces

\* what a failed fetch leaves of the cache: the throw paths assign nothing
CacheOnFailure_evict(entry) == NoEntry
CacheOnFailure(entry) == entry

\* fetchBiblicalPlaces up to its first await, or to its return from the cache
fetchBiblicalPlaces(params) ==
    /\ IF Unfiltered(params) /\ Fresh(placesCache, CACHE_TTL_GEO)
       THEN /\ pendingFetch' = pendingFetch
            /\ lastCall' = [fn |-> "fetchBiblicalPlaces", params |-> params, hit |-> TRUE,
                            provider |-> FALSE, had |-> placesCache.present,
                            age |-> Age(placesCache),
                            result |-> ServedFromCache(placesCache, params)]
       ELSE /\ Len(pendingFetch) < MaxFetches
            /\ pendingFetch' = Append(pendingFetch, params)
            /\ lastCall' = [fn |-> "fetchBiblicalPlaces", params |-> params, hit |-> FALSE,
                            provider |-> TRUE, had |-> placesCache.present,
                            age |-> Age(placesCache), result |-> [awaiting |-> TRUE]]
    /\ UNCHANGED <<now, verseCache, placesCache>>

\* the collaborator answered 2xx with data
fetchResolves(i, data) ==
    /\ i \in 1..Len(pendingFetch)
    /\ LET params == pendingFetch[i]
           allPlaces == MapPlaces(FilterGeo(data.documents))
       IN  /\ placesCache' = IF Unfiltered(params)
                             THEN [present |-> TRUE,
                                   data |-> CachedListing(allPlaces, params),
                                   timestamp |-> now]
                             ELSE placesCache
           /\ lastCall' = [fn |-> "fetchDone", params |-> params, ok |-> TRUE,
                           allPlaces |-> allPlaces,
                           result |-> [places |-> Slice(allPlaces, params.offset, params.limit),
                                       total |-> IF data.total # 0 THEN data.total
                                                 ELSE Len(allPlaces)]]
    /\ pendingFetch' = RemoveAt(pendingFetch, i)
    /\ UNCHANGED <<now, verseCache>>

\* !response.ok, or fetch threw: the call throws an Error
fetchFails(i, status) ==
    /\ i \in 1..Len(pendingFetch)
    /\ lastCall' = [fn |-> "fetchDone", params |-> pendingFetch[i], ok |-> FALSE,
                    result |-> [error |-> status]]
    /\ pendingFetch' = RemoveAt(pendingFetch, i)
    /\ placesCache' = CacheOnFailure(placesCache)
    /\ UNCHANGED <<now, verseCache>>

\* TickCacheMs milliseconds pass
TickCache ==
    /\ now + TickCacheMs <= MaxNow
    /\ now' = now + TickCacheMs
    /\ lastCall' = [fn |-> "tick"]
    /\ UNCHANGED <<verseCache, placesCache, pendingFetch>>

(***************************************************************************)
(* geography.ts: getPlaceDetails and searchPlacesByName                     *)
(***************************************************************************)
MaxApiPending == 1                   \* calls awaiting the collaborator at once
MaxHits == 2                         \* results in a search response

\* values the collaborator may put in a numeric and in a list-valued field
RawNumbers == {Undef, Num(0), Num(31), Str(<<"3", "5", "x">>), Str(<<"n">>)}
RawLists ==
    {Undef, Str(<<>>), Arr(<<>>), Arr(<<<<"G", "1">>>>),
     Str(<<"G", "1", ",", ",", "E", "2">>), Num(7)}
RawContents == {Undef, Str(<<"B", "e", "t", "h", " ", ":", "x">>)}

\* metadata objects: absent, empty, and with some of the fields present
Metadatas ==
    {NoMetadata, EmptyMetadata, GeoMeta("city", Num(350))}
    \cup {[EmptyMetadata EXCEPT !.latitude = x, !.confidence = x] : x \in RawNumbers}
    \cup {[EmptyMetadata EXCEPT !.longitude = x, !.place_type = ""] : x \in RawNumbers}
    \cup {[EmptyMetadata EXCEPT !.verse_references = x] : x \in RawLists}
    \cup {[EmptyMetadata EXCEPT !.alternate_names = x,
                                !.name = Str(<<"A", "i">>)] : x \in RawLists}

\* GET /api/v1/documents/{id} bodies
PlaceDocs ==
    [id : {"p1", UNDEF}, document_id : {"p1"}, content : RawContents,
     metadata : Metadatas]

\* entries of the results array of POST /api/v1/search
Hits ==
    [document_id : {"p1"}, content : {Str(<<"B", "e", "t", "h", " ", ":", "x">>)},
     metadata : {NoMetadata, EmptyMetadata, GeoMeta("city", Str(<<"3", "5", "0">>)),
                 [EmptyMetadata EXCEPT !.latitude = Num(31), !.confidence = Str(<<"n">>),
                                       !.verse_references = Arr(<<<<"G", "1">>>>),
                                       !.alternate_names = Str(<<"A", ",", "B">>)]}]

SearchResponses == SeqsUpTo(Hits, MaxHits)

\* response.ok
ResponseOk(status) == status \in 200..299

\* (x || '').split(...) on a value that is neither a string nor an array
SplitThrows(v) == v[1] = "number" /\ JsTruthy(v)
transformThrows(doc) ==
    /\ doc.metadata.present
    /\ \/ SplitThrows(doc.metadata.verse_references)
       \/ SplitThrows(doc.metadata.alternate_names)

\* the inline mapping of a search result in searchPlacesByName
resultToPlace(result) ==
    LET metadata == IF result.metadata.present THEN result.metadata ELSE EmptyMetadata
        confidence == ToNumber(OrElse(metadata.confidence, Num(0)))
    IN  [id |-> result.document_id,
         document_id |-> result.document_id,
         name |-> OrElse(metadata.name, extractNameFromContent(result.content)),
         latitude |-> OrElse(metadata.latitude, Num(0)),
         longitude |-> OrElse(metadata.longitude, Num(0)),
         place_type |-> IF Truthy(metadata.place_type) THEN metadata.place_type
                        ELSE "unknown",
         confidence_score |-> OrElse(metadata.confidence, Num(0)),
         confidence_level |-> IF confidence = NaN THEN "low"
                              ELSE getConfidenceLevel(confidence[2]),
         verse_references |-> OrElse(metadata.verse_references, Arr(<<>>)),
         alternate_names |-> OrElse(metadata.alternate_names, Arr(<<>>)),
         content |-> result.content]

\* if (response.status === 404) return null
NotFound_any(status) == status # 0
NotFound(status) == status = 404

\* a call starts and awaits fetch
getPlaceDetails(documentId) ==
    /\ Len(apiPending) < MaxApiPending
    /\ apiPending' = Append(apiPending, [fn |-> "getPlaceDetails", arg |-> documentId])
    /\ UNCHANGED apiCall

searchPlacesByName(q) ==
    /\ Len(apiPending) < MaxApiPending
    /\ apiPending' = Append(apiPending, [fn |-> "searchPlacesByName", arg |-> q])
    /\ UNCHANGED apiCall

\* the response body of a call that failed
NoBody == [id |-> UNDEF, document_id |-> UNDEF, content |-> Undef, metadata |-> NoMetadata]

\* the rest of getPlaceDetails: status 0 stands for fetch itself throwing
placeDetailsCompletes(i, status, doc) ==
    /\ i \in 1..Len(apiPending)
    /\ apiPending[i].fn = "getPlaceDetails"
    /\ apiCall' =
           [fn |-> "getPlaceDetails", status |-> status,
            given |-> IF ResponseOk(status) THEN <<doc>> ELSE <<>>,
            outcome |-> IF ResponseOk(status)
                        THEN IF transformThrows(doc) THEN "throws" ELSE "returns"
                        ELSE IF status # 0 /\ NotFound(status) THEN "returns" ELSE "throws",
            null |-> ~ResponseOk(status) /\ status # 0 /\ NotFound(status),
            places |-> IF ResponseOk(status) /\ ~transformThrows(doc)
                       THEN <<transformDocumentToPlace(doc)>> ELSE <<>>]
    /\ apiPending' = RemoveAt(apiPending, i)

\* the rest of searchPlacesByName
searchPlacesCompletes(i, status, results) ==
    /\ i \in 1..Len(apiPending)
    /\ apiPending[i].fn = "searchPlacesByName"
    /\ apiCall' =
           [fn |-> "searchPlacesByName", status |-> status,
            given |-> IF ResponseOk(status) THEN results ELSE <<>>,
            outcome |-> IF ResponseOk(status) THEN "returns" ELSE "throws",
            null |-> FALSE,
            places |-> IF ResponseOk(status)
                       THEN [k \in 1..Len(results) |-> resultToPlace(results[k])]
                       ELSE <<>>]
    /\ apiPending' = RemoveAt(apiPending, i)

(***************************************************************************)
(* routes/geography/+page.svelte                                            *)
(***************************************************************************)
MaxPagePlaces == 2                   \* places in the listing the page loads
MaxPageHits == 1                     \* places in a search result of the page
MaxPageSearches == 1                 \* handleSearch calls awaiting at once

\* the options of the two selects
PlaceTypeOptions == {"all", "mountain", "city"}
ConfidenceOptions == {"all", "high", "moderate", "low"}

\* what fetchBiblicalPlaces({ limit: 2000 }) and searchPlacesByName may return
PageListings ==
    SeqsUpTo({transformDocumentToPlace(d) :
                 d \in {x \in Docs : x.metadata.domain = GEO_DOMAIN}}, MaxPagePlaces)
PageHits ==
    SeqsUpTo({resultToPlace(h) :
                 h \in [document_id : {"p1"}, content : {Undef},
                        metadata : {NoMetadata, GeoMeta("city", Num(350)),
                                    GeoMeta("mountain", Num(90))}]}, MaxPageHits)

\* what the user types in the search box, and the ?search= parameter
PageTexts == {<<>>, <<" ">>, <<"B", "e">>}

\* err.message of a rejected fetchBiblicalPlaces / searchPlacesByName
LoadError(status) ==
    CASE status = 404 -> "Geography data not found."
      [] status = 503 -> "Prism API is unavailable."
      [] status = 0 -> "Failed to fetch"
      [] OTHER -> "Failed to load geography data."
SearchError(status) == IF status = 0 THEN "Failed to fetch" ELSE "HTTP error!"

RECURSIVE SelectPlaces(_, _, _)
\* handleFilterChange's two filters over a list
SelectPlaces(ps, type, conf) ==
    IF ps = <<>> THEN <<>>
    ELSE LET p == Head(ps)
             keep == /\ (type # "all" => p.place_type = type)
                     /\ (conf # "all" => p.confidence_level = conf)
         IN  (IF keep THEN <<p>> ELSE <<>>) \o SelectPlaces(Tail(ps), type, conf)

\* bind:value of the search box
typeGeoQuery(t) ==
    /\ geoQuery' = t
    /\ pageOp' = "type"
    /\ UNCHANGED <<places, filteredPlaces, loading, error, selectedPlaceType,
                   selectedConfidence, mountStage, pageSearches>>

\* handleSearch up to its return or its await; origin is "user" or "mount"
handleSearchStart(q, origin) ==
    IF Trim(q) = <<>>
    THEN /\ filteredPlaces' = places
         /\ UNCHANGED <<loading, pageSearches>>
    ELSE /\ Len(pageSearches) < MaxPageSearches
         /\ loading' = TRUE
         /\ pageSearches' = Append(pageSearches, origin)
         /\ UNCHANGED filteredPlaces

\* Enter in the search box, or the Search button
handleSearch ==
    /\ handleSearchStart(geoQuery, "user")
    /\ pageOp' = "search"
    /\ UNCHANGED <<places, error, geoQuery, selectedPlaceType, selectedConfidence,
                   mountStage>>

\* searchPlacesByName resolved
pageSearchResolves(i, results) ==
    /\ i \in 1..Len(pageSearches)
    /\ filteredPlaces' = results
    /\ loading' = FALSE
    /\ mountStage' = IF pageSearches[i] = "mount" THEN "done" ELSE mountStage
    /\ pageSearches' = RemoveAt(pageSearches, i)
    /\ pageOp' = "searched"
    /\ UNCHANGED <<places, error, geoQuery, selectedPlaceType, selectedConfidence>>

\* searchPlacesByName rejected
pageSearchRejects(i, status) ==
    /\ i \in 1..Len(pageSearches)
    /\ error' = SearchError(status)
    /\ loading' = FALSE
    /\ mountStage' = IF pageSearches[i] = "mount" THEN "done" ELSE mountStage
    /\ pageSearches' = RemoveAt(pageSearches, i)
    /\ pageOp' = "searchFailed"
    /\ UNCHANGED <<places, filteredPlaces, geoQuery, selectedPlaceType,
                   selectedConfidence>>

\* onMount after fetchBiblicalPlaces resolved; searchParam is ?search=
mountFetched(listing, searchParam) ==
    /\ mountStage = "fetching"
    /\ places' = listing
    /\ IF searchParam # <<>>
       THEN /\ geoQuery' = searchParam
            /\ IF Trim(searchParam) = <<>>
               THEN /\ filteredPlaces' = listing
                    /\ loading' = FALSE
                    /\ mountStage' = "done"
                    /\ UNCHANGED pageSearches
               ELSE /\ Len(pageSearches) < MaxPageSearches
                    /\ filteredPlaces' = listing
                    /\ loading' = TRUE
                    /\ pageSearches' = Append(pageSearches, "mount")
                    /\ mountStage' = "searching"
       ELSE /\ filteredPlaces' = listing
            /\ loading' = FALSE
            /\ mountStage' = "done"
            /\ UNCHANGED <<geoQuery, pageSearches>>
    /\ pageOp' = "loaded"
    /\ UNCHANGED <<error, selectedPlaceType, selectedConfidence>>

\* onMount's catch: fetchBiblicalPlaces rejected
mountFails(status) ==
    /\ mountStage = "fetching"
    /\ error' = LoadError(status)
    /\ loading' = FALSE
    /\ mountStage' = "done"
    /\ pageOp' = "loadFailed"
    /\ UNCHANGED <<places, filteredPlaces, geoQuery, selectedPlaceType,
                   selectedConfidence, pageSearches>>

\* a select changes; the reactive statement then runs handleFilterChange
handleFilterChange(type, conf) ==
    /\ type # selectedPlaceType \/ conf # selectedConfidence
    /\ selectedPlaceType' = type
    /\ selectedConfidence' = conf
    /\ filteredPlaces' = SelectPlaces(places, type, conf)
    /\ pageOp' = "filter"
    /\ UNCHANGED <<places, loading, error, geoQuery, mountStage, pageSearches>>

(***************************************************************************)
(* SearchBar.svelte: exportResults, exportAsJSON, exportAsCSV               *)
(* Strings are sequences of characters; a similarity is held in thousandths *)
(* (870 is 0.87).                                                           *)
(***************************************************************************)
MaxExported == 2                     \* results in the exported list
MaxDownloads == 2                    \* files produced in one run

LowerCase ==
    <<"a", "b", "c", "d", "e", "f", "g", "h", "i", "j", "k", "l", "m", "n", "o", "p",
      "q", "r", "s", "t", "u", "v", "w", "x", "y", "z">>
UpperCase ==
    <<"A", "B", "C", "D", "E", "F", "G", "H", "I", "J", "K", "L", "M", "N", "O", "P",
      "Q", "R", "S", "T", "U", "V", "W", "X", "Y", "Z">>

toUpperCaseChar(c) ==
    IF \E k \in 1..26 : LowerCase[k] = c
    THEN UpperCase[CHOOSE k \in 1..26 : LowerCase[k] = c]
    ELSE c
toUpperCase(cs) == [k \in 1..Len(cs) |-> toUpperCaseChar(cs[k])]

RECURSIVE toStringNat(_)
\* n.toString() of a natural number
toStringNat(n) ==
    IF n < 10 THEN <<CHOOSE c \in DOMAIN DigitVal : DigitVal[c] = n>>
    ELSE toStringNat(n \div 10) \o toStringNat(n % 10)

\* (similarity * 100).toFixed(0): the nearest whole percent, a half rounds up
toFixed0(thousandths) == toStringNat((thousandths + 5) \div 10)

RECURSIVE Repeat(_, _)
Repeat(c, n) == IF n = 0 THEN <<>> ELSE <<c>> \o Repeat(c, n - 1)

RECURSIVE Join(_, _)
\* parts.join(sep)
Join(parts, sep) ==
    IF parts = <<>> THEN <<>>
    ELSE IF Len(parts) = 1 THEN parts[1]
    ELSE parts[1] \o sep \o Join(Tail(parts), sep)

RECURSIVE Flatten(_)
Flatten(seqs) == IF seqs = <<>> THEN <<>> ELSE Head(seqs) \o Flatten(Tail(seqs))

RECURSIVE CollapseSpaces(_)
\* s.replace(/\s+/g, '_')
CollapseSpaces(cs) ==
    IF cs = <<>> THEN <<>>
    ELSE IF IsSpace(Head(cs))
         THEN <<"_">> \o CollapseSpaces(TrimStart(cs))
         ELSE <<Head(cs)>> \o CollapseSpaces(Tail(cs))

\* the download attribute of the link
DownloadName(q, ext) ==
    LET stem == CollapseSpaces(q)
    IN  Flatten(<<<<"s", "e", "a", "r", "c", "h", "_">>, SubSeq(stem, 1, Min(Len(stem), 30)), <<"_">>,
                  toStringNat(now), ext>>)

RECURSIVE EscapeQuotes(_)
\* text.replace(/"/g, '""')
EscapeQuotes(cs) ==
    IF cs = <<>> THEN <<>>
    ELSE (IF Head(cs) = "\"" THEN <<"\"", "\"">> ELSE <<Head(cs)>>)
         \o EscapeQuotes(Tail(cs))

\* the results the collaborator may have delivered to the searchResults store
ExportResults ==
    { [verse_ref |-> <<"P", "s", "a", "l", "m", "s", " ", "2", "3", ":", "1">>, book |-> <<"P", "s", "a", "l", "m", "s">>, chapter |-> 23, verse |-> 1,
       translation |-> <<"k", "j", "v">>, similarity |-> 870,
       text |-> <<"m", "y", " ", "\"", "r", "o", "d", "\"">>],
      [verse_ref |-> <<"J", "n", " ", "3", ":", "1", "6">>, book |-> <<"J", "n">>,
       chapter |-> 3, verse |-> 16,
       translation |-> <<"w", "e", "b">>, similarity |-> 875,
       text |-> <<"s", "o", ",", " ", "G", "o", "d">>],
      [verse_ref |-> <<"P", "s", " ", "1", ":", "1", ",", "2">>, book |-> <<"P", "s">>,
       chapter |-> 1, verse |-> 1,
       translation |-> <<"k", "j", "v">>, similarity |-> 1000,
       text |-> <<"a", "\n", "b">>] }

ExportLists == SeqsUpTo(ExportResults, MaxExported)

\* $selectedTranslations and new Date().toLocaleDateString() at the click
TranslationLists == {<<<<"k", "j", "v">>>>, <<<<"k", "j", "v">>, <<"w", "e", "b">>>>}
DateStrings == {<<"1", "/", "2", "/", "2", "6">>}

\* if ($searchResults.length === 0) return;
NothingToExport_never(rs) == FALSE
NothingToExport(rs) == Len(rs) = 0

\* the number written before a result: index + 1
IndexLabel_zero(index) == index
IndexLabel(index) == index + 1

\* the four lines pushed for the result at 0-based position index
ResultLines(result, index) ==
    << Flatten(<<toStringNat(IndexLabel(index)), <<".", " ">>, result.verse_ref,
                 <<" ", "(">>, toUpperCase(result.translation), <<")">>>>),
       Flatten(<<<<" ", " ", " ", "S", "i", "m", "i", "l", "a", "r", "i", "t", "y", ":", " ">>, toFixed0(result.similarity), <<"%">>>>),
       <<" ", " ", " ">> \o result.text,
       <<>> >>

\* the content of the text file
TextContent(rs, q, translations, date) ==
    LET header ==
            << Flatten(<<<<"S", "e", "a", "r", "c", "h", " ", "Q", "u", "e", "r", "y", ":", " ", "\"">>, q, <<"\"">>>>),
               <<"R", "e", "s", "u", "l", "t", "s", ":", " ">> \o toStringNat(Len(rs)),
               <<"T", "r", "a", "n", "s", "l", "a", "t", "i", "o", "n", "s", ":", " ">> \o toUpperCase(Join(translations, <<",", " ">>)),
               <<"D", "a", "t", "e", ":", " ">> \o date,
               <<>>,
               Repeat("=", 80),
               <<>> >>
        body == Flatten([k \in 1..Len(rs) |-> ResultLines(rs[k], k - 1)])
        footer ==
            << Repeat("=", 80),
               <<>>,
               <<"S", "o", "u", "r", "c", "e", ":", " ", "P", "r", "i", "s", "m",
                 " ", "R", "e", "l", "i", "g", "i", "o", "u", "s", " ", "S", "t",
                 "u", "d", "i", "e", "s", " ", "(", "C", "h", "r", "i", "s", "t",
                 "i", "a", "n", "i", "t", "y", " ", "M", "o", "d", "u", "l", "e",
                 ")">>,
               <<"S", "e", "a", "r", "c", "h", " ", "E", "n", "g", "i", "n", "e",
                 ":", " ", "P", "r", "i", "s", "m", " ", "(", "P", "e", "r", "s",
                 "o", "n", "a", "l", " ", "S", "e", "m", "a", "n", "t", "i", "c",
                 " ", "D", "a", "t", "a", " ", "L", "a", "y", "e", "r", ")">>,
               <<"E", "m", "b", "e", "d", "d", "i", "n", "g", " ", "M", "o", "d",
                 "e", "l", ":", " ", "n", "o", "m", "i", "c", "-", "e", "m", "b",
                 "e", "d", "-", "t", "e", "x", "t", " ", "(", "7", "6", "8", " ",
                 "d", "i", "m", "e", "n", "s", "i", "o", "n", "s", ")">> >>
    IN  Join(header \o body \o footer, <<"\n">>)

\* the content of the CSV file
CsvRow(r) ==
    << r.verse_ref, r.book, toStringNat(r.chapter), toStringNat(r.verse),
       toUpperCase(r.translation), toFixed0(r.similarity) \o <<"%">>,
       <<"\"">> \o EscapeQuotes(r.text) \o <<"\"">> >>

CsvHeaders ==
    << <<"R", "e", "f", "e", "r", "e", "n", "c", "e">>, <<"B", "o", "o", "k">>, <<"C", "h", "a", "p", "t", "e", "r">>, <<"V", "e", "r", "s", "e">>,
       <<"T", "r", "a", "n", "s", "l", "a", "t", "i", "o", "n">>,
       <<"S", "i", "m", "i", "l", "a", "r", "i", "t", "y">>, <<"T", "e", "x", "t">> >>

CsvContent(rs) ==
    Join(<<Join(CsvHeaders, <<",">>)>>
             \o [k \in 1..Len(rs) |-> Join(CsvRow(rs[k]), <<",">>)],
         <<"\n">>)

\* the object exportAsJSON serialises; the file is kept as this object
JsonData(rs, q, translations) ==
    [query |-> q, translations |-> translations, total_results |-> Len(rs),
     results |-> [k \in 1..Len(rs) |->
                     [verse_ref |-> rs[k].verse_ref, book |-> rs[k].book,
                      chapter |-> rs[k].chapter, verse |-> rs[k].verse,
                      translation |-> rs[k].translation, text |-> rs[k].text,
                      similarity |-> rs[k].similarity]]]

\* one export handler: kind is "text", "json" or "csv"
Export(kind, ext, content) ==
    /\ exportsTried' = exportsTried \cup {kind}
    /\ IF NothingToExport(searchResults)
       THEN /\ downloads' = downloads
            /\ lastExport' = [kind |-> kind, produced |-> FALSE]
       ELSE /\ Len(downloads) < MaxDownloads
            /\ downloads' = Append(downloads,
                                   [name |-> DownloadName(searchQuery, ext),
                                    kind |-> kind, content |-> content])
            /\ lastExport' = [kind |-> kind, produced |-> TRUE]

exportResults(translations, date) ==
    Export("text", <<".", "t", "x", "t">>,
           TextContent(searchResults, searchQuery, translations, date))

exportAsJSON(translations) ==
    Export("json", <<".", "j", "s", "o", "n">>,
           JsonData(searchResults, searchQuery, translations))

exportAsCSV ==
    Export("csv", <<".", "c", "s", "v">>, CsvContent(searchResults))

(***************************************************************************)
(* The languages page (routes/languages/+page.svelte) and the language     *)
(* viewer (LanguageViewer.svelte).                                         *)
(***************************************************************************)
MaxVerseNo == 2        \* the Next button is followed up to this verse

OT_BOOKS ==
    << "Genesis", "Exodus", "Leviticus", "Numbers", "Deuteronomy",
       "Joshua", "Judges", "Ruth", "1 Samuel", "2 Samuel",
       "1 Kings", "2 Kings", "1 Chronicles", "2 Chronicles",
       "Ezra", "Nehemiah", "Esther", "Job", "Psalms", "Proverbs",
       "Ecclesiastes", "Song of Songs", "Isaiah", "Jeremiah",
       "Lamentations", "Ezekiel", "Daniel", "Hosea", "Joel",
       "Amos", "Obadiah", "Jonah", "Micah", "Nahum", "Habakkuk",
       "Zephaniah", "Haggai", "Zechariah", "Malachi" >>

NT_BOOKS ==
    << "Matthew", "Mark", "Luke", "John", "Acts",
       "Romans", "1 Corinthians", "2 Corinthians", "Galatians",
       "Ephesians", "Philippians", "Colossians",
       "1 Thessalonians", "2 Thessalonians",
       "1 Timothy", "2 Timothy", "Titus", "Philemon",
       "Hebrews", "James", "1 Peter", "2 Peter",
       "1 John", "2 John", "3 John", "Jude", "Revelation" >>

\* Array.prototype.includes
Includes(xs, x) == \E i \in 1..Len(xs) : xs[i] = x

getTestament(book) ==
    IF Includes(OT_BOOKS, book) THEN "OT"
    ELSE IF Includes(NT_BOOKS, book) THEN "NT"
    ELSE NULL

\* a search parameter the URL does not carry: params.get(...) === null
NoParam == <<"(null)">>
ParamGiven(p) == p # NoParam /\ p # <<>>

\* parseInt(text, 10): the value of the leading digits, NaN when there are none
parseInt10(cs) ==
    IF LeadingDigits(cs) = <<>> THEN NaN ELSE DigitsValue(LeadingDigits(cs))

\* the URLs the page is opened with
Urls ==
    { [book |-> NULL, chapter |-> NoParam, verse |-> NoParam, view |-> NULL],
      [book |-> "John", chapter |-> <<"3">>, verse |-> <<"1", "6">>, view |-> NULL],
      [book |-> "Exodus", chapter |-> <<"1">>, verse |-> <<"2">>, view |-> NULL],
      [book |-> "Tobit", chapter |-> NoParam, verse |-> NoParam, view |-> NULL],
      [book |-> "John", chapter |-> <<"3">>, verse |-> <<"1", "6">>,
       view |-> "interlinear"] }

\* the books picked in the book selector
SampleBooks == {"Genesis", "Exodus", "John", "Acts"}

\* verseData = null
NoVerse == [original_text |-> <<>>, language |-> "none", book |-> "", chapter |-> 0,
            verse |-> 0]

\* $: availableBooks = currentTab === 'hebrew' ? OT_BOOKS : NT_BOOKS
availableBooks(tab) == IF tab = "hebrew" THEN OT_BOOKS ELSE NT_BOOKS

\* $: { const testament = getTestament(selectedBook); ... }: the tab after the block
AutoSwitch(tab, book) ==
    LET testament == getTestament(book)
    IN  IF testament = "OT" /\ tab = "greek" THEN "hebrew"
        ELSE IF testament = "NT" /\ tab = "hebrew" THEN "greek"
        ELSE tab

\* handleTabChange: the selection after "Switch to appropriate book"
TabSelection_keep(tab, sel) == sel
TabSelection(tab, sel) ==
    IF tab = "hebrew" /\ ~Includes(OT_BOOKS, sel.book)
    THEN [book |-> "Genesis", chapter |-> 1, verse |-> 1]
    ELSE IF tab = "greek" /\ ~Includes(NT_BOOKS, sel.book)
    THEN [book |-> "John", chapter |-> 1, verse |-> 1]
    ELSE sel

\* selectedBook || selectedChapter || selectedVerse
SelectionTruthy(book, chapter, verse) == book # "" \/ chapter # 0 \/ verse # 0

Selection == [book |-> selectedBook, chapter |-> selectedChapter, verse |-> selectedVerse]

\* loadVerse (LanguageViewer.svelte:38-57) up to its await: the call of the
\* SWORD API runs to its return, the rest waits in the microtask queue
loadVerse(tab, book, chapter, verse) ==
    /\ IF tab = "hebrew"
       THEN getHebrewText(book, chapter, verse)
       ELSE getGreekText(book, chapter, verse)
    /\ loads' = Append(loads, lastCall'.result)
    /\ viewerLoading' = TRUE
    /\ viewerError' = NULL

\* no loadVerse call in this step
NoLoad == UNCHANGED <<cacheVars, loads, viewerLoading, viewerError>>

\* loadVerse after the await; the continuations run in the order of the calls
loadVerseCompletes ==
    /\ loads # <<>>
    /\ dirty = {}
    /\ pageStage = "mounted"
    /\ viewerStage # "created"
    /\ verseData' = Head(loads)
    /\ viewerError' = IF Head(loads) = NoVerse
                      THEN "Verse not found or module not available"
                      ELSE viewerError
    /\ viewerLoading' = FALSE
    /\ loads' = Tail(loads)
    /\ UNCHANGED <<cacheVars, langPageVars, viewerStage, initialBook, initialChapter,
                   initialVerse, currentTab, selectedBook, selectedChapter,
                   selectedVerse, dirty, langEvent>>

\* A LanguageViewer is instantiated with the given props: the script runs
\* (lines 6-18), then every reactive statement once (lines 21-32, 91-93).
Construct(book, chapter, verse) ==
    /\ initialBook' = book
    /\ initialChapter' = chapter
    /\ initialVerse' = verse
    /\ selectedBook' = book
    /\ selectedChapter' = chapter
    /\ selectedVerse' = verse
    /\ currentTab' = AutoSwitch("hebrew", book)
    /\ verseData' = NoVerse
    /\ dirty' = {}
    /\ viewerStage' = "created"
    /\ IF SelectionTruthy(book, chapter, verse)
       THEN loadVerse(AutoSwitch("hebrew", book), book, chapter, verse)
       ELSE /\ viewerLoading' = FALSE
            /\ viewerError' = NULL
            /\ UNCHANGED <<cacheVars, loads>>

\* the page is rendered: {#if currentView === 'original'} <LanguageViewer .../>
openPage ==
    /\ pageStage = "opening"
    /\ viewerStage = "none"
    /\ Construct(pageInitialBook, pageInitialChapter, pageInitialVerse)
    /\ langEvent' = [op |-> "open"]
    /\ UNCHANGED langPageVars

\* onMount of the viewer (lines 34-36)
viewerOnMount ==
    /\ viewerStage = "created"
    /\ viewerStage' = "mounted"
    /\ loadVerse(currentTab, selectedBook, selectedChapter, selectedVerse)
    /\ UNCHANGED <<langPageVars, initialBook, initialChapter, initialVerse, currentTab,
                   selectedBook, selectedChapter, selectedVerse, verseData, dirty,
                   langEvent>>

\* onMount of the page (routes/languages/+page.svelte:18-29) and the update it
\* schedules: the viewer's props are set, or the viewer is replaced by the
\* interlinear view
pageOnMount ==
    /\ pageStage = "opening"
    /\ viewerStage = "mounted"
    /\ pageStage' = "mounted"
    /\ pageInitialBook' = IF url.book # NULL /\ url.book # "" THEN url.book
                          ELSE pageInitialBook
    /\ pageInitialChapter' = IF ParamGiven(url.chapter) THEN parseInt10(url.chapter)
                             ELSE pageInitialChapter
    /\ pageInitialVerse' = IF ParamGiven(url.verse) THEN parseInt10(url.verse)
                           ELSE pageInitialVerse
    /\ currentView' = IF url.view = "interlinear" THEN "interlinear" ELSE currentView
    /\ IF url.view = "interlinear"
       THEN /\ viewerStage' = "none"
            /\ loads' = <<>>
            /\ UNCHANGED <<initialBook, initialChapter, initialVerse>>
       ELSE /\ initialBook' = pageInitialBook'
            /\ initialChapter' = pageInitialChapter'
            /\ initialVerse' = pageInitialVerse'
            /\ UNCHANGED <<viewerStage, loads>>
    /\ UNCHANGED <<url, cacheVars, currentTab, selectedBook, selectedChapter,
                   selectedVerse, verseData, viewerLoading, viewerError, dirty,
                   langEvent>>

\* between two events of the user every microtask has run
Idle == pageStage = "mounted" /\ dirty = {} /\ loads = <<>> /\ viewerStage # "created"

\* the names of the selection variables whose value an assignment changed
Changed(sel) ==
    {n \in {"selectedBook"} : sel.book # selectedBook}
    \cup {n \in {"selectedChapter"} : sel.chapter # selectedChapter}
    \cup {n \in {"selectedVerse"} : sel.verse # selectedVerse}

\* handleTabChange (lines 59-72)
handleTabChange(tab) ==
    /\ Idle
    /\ viewerStage = "mounted"
    /\ LET sel == TabSelection(tab, Selection)
       IN  /\ currentTab' = tab
           /\ selectedBook' = sel.book
           /\ selectedChapter' = sel.chapter
           /\ selectedVerse' = sel.verse
           /\ loadVerse(tab, sel.book, sel.chapter, sel.verse)
           /\ dirty' = Changed(sel) \cup {n \in {"currentTab"} : tab # currentTab}
           /\ langEvent' = [op |-> "tab", tab |-> tab,
                            foreign |-> ~Includes(availableBooks(tab), selectedBook)]
    /\ UNCHANGED <<langPageVars, viewerStage, initialBook, initialChapter, initialVerse,
                   verseData>>

\* <select bind:value={selectedBook}> over {#each availableBooks as book}
selectBook(book) ==
    /\ Idle
    /\ viewerStage = "mounted"
    /\ Includes(availableBooks(currentTab), book)
    /\ book # selectedBook
    /\ selectedBook' = book
    /\ dirty' = {"selectedBook"}
    /\ langEvent' = [op |-> "select"]
    /\ NoLoad
    /\ UNCHANGED <<langPageVars, viewerStage, initialBook, initialChapter, initialVerse,
                   currentTab, selectedChapter, selectedVerse, verseData>>

\* nextVerse (lines 85-88)
nextVerse ==
    /\ Idle
    /\ viewerStage = "mounted"
    /\ selectedVerse < MaxVerseNo
    /\ selectedVerse' = selectedVerse + 1
    /\ loadVerse(currentTab, selectedBook, selectedChapter, selectedVerse + 1)
    /\ dirty' = {"selectedVerse"}
    /\ langEvent' = [op |-> "next"]
    /\ UNCHANGED <<langPageVars, viewerStage, initialBook, initialChapter, initialVerse,
                   currentTab, selectedBook, selectedChapter, verseData>>

\* previousVerse (lines 74-83); its button is disabled at chapter 1, verse 1
previousVerse ==
    /\ Idle
    /\ viewerStage = "mounted"
    /\ ~(selectedChapter = 1 /\ selectedVerse = 1)
    /\ IF selectedVerse > 1
       THEN /\ selectedVerse' = selectedVerse - 1
            /\ selectedChapter' = selectedChapter
            /\ dirty' = {"selectedVerse"}
            /\ loadVerse(currentTab, selectedBook, selectedChapter, selectedVerse - 1)
       ELSE IF selectedChapter > 1
       THEN /\ selectedChapter' = selectedChapter - 1
            /\ selectedVerse' = 1
            /\ dirty' = {"selectedChapter"} \cup {n \in {"selectedVerse"} : selectedVerse # 1}
            /\ loadVerse(currentTab, selectedBook, selectedChapter - 1, 1)
       ELSE /\ UNCHANGED <<selectedChapter, selectedVerse, dirty>>
            /\ NoLoad
    /\ langEvent' = [op |-> "previous"]
    /\ UNCHANGED <<langPageVars, viewerStage, initialBook, initialChapter, initialVerse,
                   currentTab, selectedBook, verseData>>

\* the scheduled update of the viewer: the reactive statements whose
\* dependencies were invalidated run, in the order the compiler gives them
\* (the block assigning currentTab before the statements reading it)
Flush ==
    /\ dirty # {}
    /\ LET tab == IF dirty \cap {"selectedBook", "currentTab"} # {}
                  THEN AutoSwitch(currentTab, selectedBook)
                  ELSE currentTab
       IN  /\ currentTab' = tab
           /\ IF /\ dirty \cap {"selectedBook", "selectedChapter", "selectedVerse"} # {}
                 /\ SelectionTruthy(selectedBook, selectedChapter, selectedVerse)
              THEN loadVerse(tab, selectedBook, selectedChapter, selectedVerse)
              ELSE NoLoad
    /\ dirty' = {}
    /\ UNCHANGED <<langPageVars, viewerStage, initialBook, initialChapter, initialVerse,
                   selectedBook, selectedChapter, selectedVerse, verseData, langEvent>>

\* on:click={() => currentView = 'interlinear'}: the {#if} block destroys the viewer
showInterlinear ==
    /\ Idle
    /\ currentView = "original"
    /\ currentView' = "interlinear"
    /\ viewerStage' = "none"
    /\ langEvent' = [op |-> "view"]
    /\ NoLoad
    /\ UNCHANGED <<url, pageInitialBook, pageInitialChapter, pageInitialVerse, pageStage,
                   initialBook, initialChapter, initialVerse, currentTab, selectedBook,
                   selectedChapter, selectedVerse, verseData, dirty>>

\* on:click={() => currentView = 'original'}: the {#if} block creates a viewer
\* with the page's initialBook, initialChapter, initialVerse
showOriginal ==
    /\ Idle
    /\ currentView = "interlinear"
    /\ currentView' = "original"
    /\ Construct(pageInitialBook, pageInitialChapter, pageInitialVerse)
    /\ langEvent' = [op |-> "view"]
    /\ UNCHANGED <<url, pageInitialBook, pageInitialChapter, pageInitialVerse, pageStage>>

InitLangPage ==
    /\ pageInitialBook = "Genesis"
    /\ pageInitialChapter = 1
    /\ pageInitialVerse = 1
    /\ currentView = "original"
    /\ pageStage = "opening"
    /\ viewerStage = "none"
    /\ initialBook = "Genesis"
    /\ initialChapter = 1
    /\ initialVerse = 1
    /\ currentTab = "hebrew"
    /\ selectedBook = "Genesis"
    /\ selectedChapter = 1
    /\ selectedVerse = 1
    /\ verseData = NoVerse
    /\ viewerLoading = FALSE
    /\ viewerError = NULL
    /\ dirty = {}
    /\ loads = <<>>
    /\ langEvent = [op |-> "none"]

\* the languages page is not open
InitLangIdle == InitLangPage /\ url = [book |-> NULL, chapter |-> NoParam,
                                        verse |-> NoParam, view |-> NULL]

InitSearch ==
    /\ query = <<>>
    /\ searchQuery = <<>>
    /\ debounceTimer = 0
    /\ timers = <<>>
    /\ inflight = <<>>
    /\ isSearching = FALSE
    /\ searchError = NULL
    /\ searchResults = <<>>
    /\ mounted = TRUE
    /\ lastOp = "init"
    /\ lastDone = NoMarks
    /\ prevResults = <<>>
    /\ lastResponse = <<>>
    /\ unhandled = FALSE
    /\ quiet = 0
    /\ lastKey = NoKey
    /\ superseded = NoKey
    /\ forced = FALSE
    /\ burstLog = <<>>

InitCache ==
    /\ now = 0
    /\ verseCache = <<>>
    /\ placesCache = NoEntry
    /\ pendingFetch = <<>>
    /\ lastCall = [fn |-> "none"]

InitConfIdle ==
    /\ score = 0
    /\ level = "none"

InitApi ==
    /\ apiPending = <<>>
    /\ apiCall = [fn |-> "none"]

InitPage ==
    /\ places = <<>>
    /\ filteredPlaces = <<>>
    /\ loading = TRUE
    /\ error = NULL
    /\ geoQuery = <<>>
    /\ selectedPlaceType = "all"
    /\ selectedConfidence = "all"
    /\ mountStage = "fetching"
    /\ pageSearches = <<>>
    /\ pageOp = "init"

InitDownloads ==
    /\ downloads = <<>>
    /\ exportsTried = {}
    /\ lastExport = [kind |-> "none", produced |-> FALSE]

Init ==
    /\ InitSearch /\ InitCache /\ InitConfIdle /\ InitApi /\ InitPage /\ InitDownloads
    /\ observing = FALSE
    /\ InitLangIdle

(***************************************************************************)
(* getConfidenceLevel applied to every score of a range                    *)
(***************************************************************************)
MaxScore == 400

InitConf ==
    /\ InitSearch
    /\ InitCache
    /\ InitApi
    /\ InitPage
    /\ InitDownloads
    /\ observing = FALSE
    /\ InitLangIdle
    /\ score \in -MaxScore..MaxScore
    /\ level = "none"

DeriveLevel ==
    /\ level = "none"
    /\ level' = getConfidenceLevel(score)
    /\ UNCHANGED <<score, otherThanConf>>

NextConf == DeriveLevel

ConfSpec == InitConf /\ [][NextConf]_vars

Next ==
    \/ \E t \in Texts : handleInput(t) /\ UNCHANGED otherThanSearch
    \/ \E h \in DOMAIN timers : TimerFires(h) /\ UNCHANGED otherThanSearch
    \/ handleSubmit /\ UNCHANGED otherThanSearch
    \/ \E i \in 1..Len(inflight), r \in Responses :
           Resolve(i, r) /\ UNCHANGED otherThanSearch
    \/ \E i \in 1..Len(inflight) : Reject(i) /\ UNCHANGED otherThanSearch
    \/ clearSearch /\ UNCHANGED otherThanSearch
    \/ teardown /\ UNCHANGED otherThanSearch
    \/ Tick /\ UNCHANGED otherThanSearch

Spec == Init /\ [][Next]_vars

\* The coordinator with every awaited call's marks recorded.
InitRace ==
    /\ InitSearch /\ InitCache /\ InitConfIdle /\ InitApi /\ InitPage /\ InitDownloads
    /\ observing = TRUE
    /\ InitLangIdle

RaceSpec == InitRace /\ [][Next]_vars

\* The languages page opened with one of the URLs.
InitLanguages ==
    /\ InitSearch /\ InitCache /\ InitConfIdle /\ InitApi /\ InitPage /\ InitDownloads
    /\ observing = FALSE
    /\ InitLangPage
    /\ url \in Urls

NextLanguages ==
    \/ openPage /\ UNCHANGED otherThanLanguages
    \/ viewerOnMount /\ UNCHANGED otherThanLanguages
    \/ pageOnMount /\ UNCHANGED otherThanLanguages
    \/ loadVerseCompletes /\ UNCHANGED otherThanLanguages
    \/ \E tab \in {"hebrew", "greek"} : handleTabChange(tab) /\ UNCHANGED otherThanLanguages
    \/ \E book \in SampleBooks : selectBook(book) /\ UNCHANGED otherThanLanguages
    \/ nextVerse /\ UNCHANGED otherThanLanguages
    \/ previousVerse /\ UNCHANGED otherThanLanguages
    \/ Flush /\ UNCHANGED otherThanLanguages
    \/ showInterlinear /\ UNCHANGED otherThanLanguages
    \/ showOriginal /\ UNCHANGED otherThanLanguages

LanguagesSpec == InitLanguages /\ [][NextLanguages]_vars

NextCache ==
    \/ \E b \in Books, c \in Chapters, v \in Verses :
           getHebrewText(b, c, v) /\ UNCHANGED otherThanCache
    \/ \E params \in PlaceParams :
           fetchBiblicalPlaces(params) /\ UNCHANGED otherThanCache
    \/ \E i \in 1..Len(pendingFetch), data \in Listings :
           fetchResolves(i, data) /\ UNCHANGED otherThanCache
    \/ \E i \in 1..Len(pendingFetch), status \in Failures :
           fetchFails(i, status) /\ UNCHANGED otherThanCache
    \/ TickCache /\ UNCHANGED otherThanCache

CacheSpec == Init /\ [][NextCache]_vars

\* the original-language lookups of the SWORD API alone
NextSword ==
    \/ \E b \in Books, c \in Chapters, v \in Verses :
           getHebrewText(b, c, v) /\ UNCHANGED otherThanCache
    \/ \E b \in GreekBooks, c \in Chapters, v \in Verses :
           getGreekText(b, c, v) /\ UNCHANGED otherThanCache
    \/ TickCache /\ UNCHANGED otherThanCache

SwordSpec == Init /\ [][NextSword]_vars

NextApi ==
    \/ \E id \in {"p1"} : getPlaceDetails(id) /\ UNCHANGED otherThanApi
    \/ \E q \in {"Bethel"} : searchPlacesByName(q) /\ UNCHANGED otherThanApi
    \/ \E i \in 1..Len(apiPending), doc \in PlaceDocs :
           placeDetailsCompletes(i, 200, doc) /\ UNCHANGED otherThanApi
    \/ \E i \in 1..Len(apiPending), status \in Failures :
           placeDetailsCompletes(i, status, NoBody) /\ UNCHANGED otherThanApi
    \/ \E i \in 1..Len(apiPending), results \in SearchResponses :
           searchPlacesCompletes(i, 200, results) /\ UNCHANGED otherThanApi
    \/ \E i \in 1..Len(apiPending), status \in Failures :
           searchPlacesCompletes(i, status, <<>>) /\ UNCHANGED otherThanApi

GeoApiSpec == Init /\ [][NextApi]_vars

NextPage ==
    \/ \E t \in PageTexts : typeGeoQuery(t) /\ UNCHANGED otherThanPage
    \/ handleSearch /\ UNCHANGED otherThanPage
    \/ \E i \in 1..Len(pageSearches), results \in PageHits :
           pageSearchResolves(i, results) /\ UNCHANGED otherThanPage
    \/ \E i \in 1..Len(pageSearches), status \in Failures :
           pageSearchRejects(i, status) /\ UNCHANGED otherThanPage
    \/ \E listing \in PageListings, searchParam \in PageTexts :
           mountFetched(listing, searchParam) /\ UNCHANGED otherThanPage
    \/ \E status \in Failures : mountFails(status) /\ UNCHANGED otherThanPage
    \/ \E type \in PlaceTypeOptions :
           handleFilterChange(type, selectedConfidence) /\ UNCHANGED otherThanPage
    \/ \E conf \in ConfidenceOptions :
           handleFilterChange(selectedPlaceType, conf) /\ UNCHANGED otherThanPage

GeoPageSpec == Init /\ [][NextPage]_vars

\* the export buttons pressed over a result list the store may hold
InitExport ==
    /\ InitCache /\ InitConfIdle /\ InitApi /\ InitPage /\ InitDownloads
    /\ observing = FALSE
    /\ InitLangIdle
    /\ searchResults \in ExportLists
    /\ query \in {<<"r", "o", "d">>, <<"m", "y", " ", " ", "r", "o", "d">>}
    /\ searchQuery = query
    /\ debounceTimer = 1
    /\ timers = <<>>
    /\ inflight = <<>>
    /\ isSearching = FALSE
    /\ searchError = NULL
    /\ mounted = TRUE
    /\ lastOp = "success"
    /\ lastDone = NoMarks
    /\ prevResults = <<>>
    /\ lastResponse = searchResults
    /\ unhandled = FALSE
    /\ quiet = DEBOUNCE_MS
    /\ lastKey = query
    /\ superseded = NoKey
    /\ forced = FALSE
    /\ burstLog = <<>>

NextExport ==
    \/ \E translations \in TranslationLists, date \in DateStrings :
           exportResults(translations, date) /\ UNCHANGED otherThanExport
    \/ \E translations \in TranslationLists :
           exportAsJSON(translations) /\ UNCHANGED otherThanExport
    \/ exportAsCSV /\ UNCHANGED otherThanExport

ExportSpec == InitExport /\ [][NextExport]_vars

\* The collaborator settles an awaited call (fetch resolves or rejects).
Settle ==
    /\ \/ \E i \in 1..Len(inflight), r \in Responses : Resolve(i, r)
       \/ \E i \in 1..Len(inflight) : Reject(i)
    /\ UNCHANGED otherThanSearch

\* Every awaited collaborator call eventually settles.
LiveSpec == Spec /\ WF_vars(Settle)

(***************************************************************************)
(* Properties of the search coordinator                                    *)
(***************************************************************************)
TimerPending == DOMAIN timers # {}

\* C1: no search is dispatched for a text of trimmed length <= 2, whether by a
\* keystroke, a forced submit or an expiring debounce timer, and a keystroke
\* that leaves such a text empties the result list.
C1_ShortQueryNeverSearched ==
    /\ \A i \in 1..Len(inflight) : TrimLen(inflight[i].text) >= 3
    /\ \A i \in 1..Len(burstLog) : TrimLen(burstLog[i].text) >= 3
    /\ lastOp \in {"timer", "submit"} => TrimLen(query) >= 3
    /\ (lastOp = "input" /\ TrimLen(query) <= 2) => searchResults = <<>>

\* a keystroke left a text that is long only by its blanks, over a non-empty result list
C1_Witness ==
    /\ lastOp = "input"
    /\ Len(query) > 2
    /\ TrimLen(query) <= 2
    /\ prevResults # <<>>

\* C2: in a burst of keystrokes the debounce timer dispatches exactly one
\* search, no sooner than 500 ms after the last keystroke and carrying its
\* text; superseded texts are never dispatched and at most one debounce timer
\* is pending.
C2_DebounceOnce ==
    /\ Cardinality(DOMAIN timers) <= 1
    /\ Len(burstLog) <= 1
    /\ \A i \in 1..Len(burstLog) :
           /\ burstLog[i].quiet >= 500
           /\ lastKey # NoKey => burstLog[i].text = lastKey
    /\ (lastKey # NoKey /\ TrimLen(lastKey) >= 3 /\ ~forced) =>
           IF TimerPending THEN burstLog = <<>> ELSE Len(burstLog) = 1

\* the timer of the last keystroke fired after an earlier, different, searchable text was superseded
C2_Witness ==
    /\ lastOp = "timer"
    /\ ~forced
    /\ superseded # NoKey
    /\ superseded # query
    /\ TrimLen(superseded) >= 3
    /\ Len(burstLog) = 1
    /\ burstLog[1].text = query

\* C3 (as claimed): whenever performSearch exits (early return, success,
\* failure) the in-progress flag is false.
C3_FlagClearOnEveryExit ==
    lastOp \in {"early", "success", "failure"} => isSearching = FALSE

\* C7: a successful search replaces the result list by exactly the sequence
\* the collaborator returned: same elements, same order, nothing kept.
C7_ResultsReplacedWholesale ==
    lastOp = "success" => searchResults = lastResponse

\* a response in ascending similarity replaced a different non-empty list
C7_Witness ==
    /\ lastOp = "success"
    /\ prevResults # <<>>
    /\ prevResults # searchResults
    /\ searchResults = <<50, 87>>

\* C8: a failing collaborator call is caught: the error state holds the
\* user-facing message and the in-progress flag is false.
C8_FailureBecomesErrorState ==
    lastOp = "failure" =>
        /\ searchError # NULL
        /\ searchError = SEARCH_FAILED
        /\ isSearching = FALSE
        /\ unhandled = FALSE

\* a search failed while results of an earlier search were on display
C8_Witness ==
    /\ lastOp = "failure"
    /\ searchResults # <<>>

C17_NoSearchAfterClear ==
    lastOp \in {"timer", "submit"} =>
        /\ lastKey # NoKey
        /\ inflight # <<>>
        /\ inflight[Len(inflight)].text = lastKey

\* the timer of a cleared text expired and dispatched nothing
C17_Witness ==
    /\ lastOp = "early"
    /\ lastKey = NoKey
    /\ query = <<>>

\* C18 (as claimed): once the component is torn down no debounce timer is
\* pending and no search is dispatched.
C18_TeardownCancelsTimer ==
    ~mounted => (~TimerPending /\ lastOp # "timer")

\* C24 (as claimed): no response replaces the displayed response of a search
\* dispatched after its own, so that when no timer is pending and no request
\* is in flight the displayed results answer the search dispatched last.
C24_LatestResponseShown ==
    lastOp = "success" => ~lastDone.stale

\* C25 (as claimed): the response of a request that was in flight when the
\* results were cleared does not fill the result list again.
C25_ClearedStaysEmpty ==
    (lastOp = "success" /\ lastDone.cleared) => searchResults = <<>>

\* C26 (as claimed): isSearching is true exactly when a request is in flight.
C26_FlagTracksRequests ==
    isSearching <=> inflight # <<>>

\* C27 (as claimed): when a successful search has just replaced the results,
\* the error state is null.
C27_NoErrorBesideResults ==
    lastOp = "success" => searchError = NULL

\* C30 (as claimed): a place search that succeeds never leaves on the page the
\* error message that an earlier failed place search put there.
C30_SearchErrorNotSticky ==
    pageOp = "searched" =>
        error \notin {SearchError(st) : st \in Failures} \ {LoadError(st) : st \in Failures}

\* C22: a failed provider call leaves the cache exactly as it was, and an
\* entry of either cache is created or replaced only by a call whose provider
\* returned data.
C22_FailureLeavesCache ==
    [][ /\ (lastCall'.fn = "fetchDone" /\ ~lastCall'.ok) => placesCache' = placesCache
        /\ placesCache' # placesCache => (lastCall'.fn = "fetchDone" /\ lastCall'.ok)
        /\ verseCache' # verseCache =>
               (lastCall'.fn = "getHebrewText" /\ lastCall'.provider) ]_vars

\* a fetch failed while the cache held an entry that is still valid
C22_Witness ==
    /\ lastCall.fn = "fetchDone"
    /\ ~lastCall.ok
    /\ Fresh(placesCache, CACHE_TTL_GEO)

\* C23: the place cache is written only by a successful unfiltered fetch, with
\* the whole listing of that fetch (allPlaces, every geography document of the
\* response mapped to a place) whatever its limit and offset; a cache hit
\* returns the slice [offset, offset+limit) of that listing.
C23_CacheHoldsFullListing ==
    [][ /\ placesCache' # placesCache =>
               /\ lastCall'.fn = "fetchDone"
               /\ lastCall'.ok
               /\ Unfiltered(lastCall'.params)
               /\ placesCache'.data = lastCall'.allPlaces
        /\ (lastCall'.fn = "fetchBiblicalPlaces" /\ lastCall'.hit) =>
               /\ placesCache' = placesCache
               /\ lastCall'.result.places =
                      Slice(placesCache.data, lastCall'.params.offset,
                            lastCall'.params.limit) ]_vars

\* a hit with offset 1 and limit 1 over a cached listing of two places returns the second
C23_Witness ==
    /\ lastCall.fn = "fetchBiblicalPlaces"
    /\ lastCall.hit
    /\ lastCall.params.offset = 1
    /\ Len(placesCache.data) = 2
    /\ lastCall.result.places = <<placesCache.data[2]>>

\* C28 (as claimed): the response of a successful unfiltered fetch equals the
\* response the cache it has just filled serves for the same limit and offset.
C28_CacheTransparent ==
    (lastCall.fn = "fetchDone" /\ lastCall.ok /\ Unfiltered(lastCall.params)) =>
        lastCall.result = ServedFromCache(placesCache, lastCall.params)

\* the viewer is on the page and nothing of it is pending
ViewerSettled ==
    /\ pageStage = "mounted"
    /\ viewerStage = "mounted"
    /\ dirty = {}
    /\ loads = <<>>

\* C21 (as claimed): once the languages page opened with book, chapter and
\* verse parameters has mounted, the viewer's selection and the verse it has
\* loaded are those of the parameters.
C21_DeepLinkSelectsVerse ==
    (/\ ViewerSettled
     /\ langEvent.op = "open"
     /\ url.book # NULL /\ ParamGiven(url.chapter) /\ ParamGiven(url.verse)) =>
        /\ selectedBook = url.book
        /\ selectedChapter = parseInt10(url.chapter)
        /\ selectedVerse = parseInt10(url.verse)
        /\ verseData.book = url.book
        /\ verseData.chapter = parseInt10(url.chapter)
        /\ verseData.verse = parseInt10(url.verse)

\* C29: whenever the viewer has settled and the selected book belongs to a
\* testament, the tab is hebrew iff the book is of the Old Testament and greek
\* iff it is of the New; after a tab change or a book selection the selected
\* book does belong to a testament; and a change to a tab whose list does not
\* hold the selected book leaves the selection at that tab's default,
\* Genesis 1:1 or John 1:1.
C29_TabAgreesWithTestament ==
    ViewerSettled =>
        /\ getTestament(selectedBook) # NULL =>
               /\ currentTab = "hebrew" <=> getTestament(selectedBook) = "OT"
               /\ currentTab = "greek" <=> getTestament(selectedBook) = "NT"
        /\ langEvent.op \in {"tab", "select"} => getTestament(selectedBook) # NULL
        /\ (langEvent.op = "tab" /\ langEvent.foreign) =>
               /\ currentTab = langEvent.tab
               /\ Selection = IF currentTab = "hebrew"
                              THEN [book |-> "Genesis", chapter |-> 1, verse |-> 1]
                              ELSE [book |-> "John", chapter |-> 1, verse |-> 1]

\* the greek tab was chosen while an Old Testament book was selected
C29_Witness ==
    /\ ViewerSettled
    /\ langEvent.op = "tab"
    /\ langEvent.foreign
    /\ currentTab = "greek"
    /\ selectedBook = "John"
    /\ verseData.book = "John"

\* C10 (as claimed): after a forced submit the debounce timer of the same
\* keystroke does not dispatch a second search.
C10_SubmitCancelsTimer ==
    \A i \in 1..Len(burstLog) : ~burstLog[i].forced

(***************************************************************************)
(* Properties of the response caches                                       *)
(***************************************************************************)
FilterSupplied(x) == x \notin {UNDEF, ""}

\* C4: a lookup is served from the cache, without contacting the provider,
\* exactly when an entry exists and now - timestamp < TTL (30 minutes for
\* Hebrew verses, 10 minutes for the unfiltered place listing); a miss stores
\* the fetched payload at the current time, and an entry whose age has reached
\* the TTL is fetched again.
C4_CacheLookup ==
    /\ lastCall.fn = "getHebrewText" =>
           /\ lastCall.hit <=> (lastCall.had /\ lastCall.age < 30 * 60 * 1000)
           /\ lastCall.provider <=> ~lastCall.hit
           /\ lastCall.key = <<"hebrew", lastCall.result.book, lastCall.result.chapter,
                               lastCall.result.verse>>
           /\ lastCall.key \in DOMAIN verseCache
           /\ verseCache[lastCall.key].data = lastCall.result
           /\ ~lastCall.hit => verseCache[lastCall.key].timestamp = now
           /\ lastCall.hit => verseCache[lastCall.key].timestamp = now - lastCall.age
    /\ (/\ lastCall.fn = "fetchBiblicalPlaces"
        /\ ~FilterSupplied(lastCall.params.placeType)
        /\ ~FilterSupplied(lastCall.params.confidenceLevel)) =>
           /\ lastCall.hit <=> (lastCall.had /\ lastCall.age < 10 * 60 * 1000)
           /\ lastCall.provider <=> ~lastCall.hit
           /\ lastCall.hit =>
                  /\ placesCache.present
                  /\ lastCall.result.places =
                         Slice(placesCache.data, lastCall.params.offset, lastCall.params.limit)
                  /\ lastCall.result.total = Len(placesCache.data)
           /\ ~lastCall.hit => Len(pendingFetch) > 0
    /\ (lastCall.fn = "fetchDone" /\ lastCall.ok
        /\ ~FilterSupplied(lastCall.params.placeType)
        /\ ~FilterSupplied(lastCall.params.confidenceLevel)) =>
           /\ placesCache.present
           /\ placesCache.timestamp = now
           /\ lastCall.result.places =
                  Slice(placesCache.data, lastCall.params.offset, lastCall.params.limit)

\* a Hebrew verse whose entry is exactly 30 minutes old is fetched again
C4_Witness ==
    /\ lastCall.fn = "getHebrewText"
    /\ lastCall.had
    /\ lastCall.age = 30 * 60 * 1000
    /\ ~lastCall.hit
    /\ lastCall.provider

\* C11 (as claimed): every original-language lookup, Hebrew or Greek, that
\* calls the provider leaves its result in the response cache under the
\* verse's key, and a lookup repeating the previous one makes no provider call.
C11_EveryLookupCached ==
    lastCall.fn \in {"getHebrewText", "getGreekText"} =>
        /\ lastCall.provider =>
               /\ lastCall.key \in DOMAIN verseCache
               /\ verseCache[lastCall.key].data = lastCall.result
        /\ lastCall.repeat => ~lastCall.provider

\* C19 (as claimed): a listing fetched with a place type holds only places of
\* that type, and one fetched with a confidence level only places of that
\* level, whatever documents the collaborator returns.
C19_FilterHonoured ==
    (lastCall.fn = "fetchDone" /\ lastCall.ok) =>
        \A i \in 1..Len(lastCall.result.places) :
            /\ FilterSupplied(lastCall.params.placeType) =>
                   lastCall.result.places[i].place_type = lastCall.params.placeType
            /\ FilterSupplied(lastCall.params.confidenceLevel) =>
                   lastCall.result.places[i].confidence_level =
                       lastCall.params.confidenceLevel

\* C15: getPlaceDetails answers a 404 response by returning null without
\* throwing; any other non-2xx response, and a failed transport, makes it throw
\* and never return null.
C15_NotFoundIsNull ==
    apiCall.fn = "getPlaceDetails" =>
        /\ apiCall.status = 404 => (apiCall.outcome = "returns" /\ apiCall.null)
        /\ (apiCall.status \notin 200..299 /\ apiCall.status # 404) =>
               (apiCall.outcome = "throws" /\ ~apiCall.null)
        /\ apiCall.status \in 200..299 => ~apiCall.null

\* a 404 was answered with null
C15_Witness ==
    /\ apiCall.fn = "getPlaceDetails"
    /\ apiCall.status = 404
    /\ apiCall.outcome = "returns"
    /\ apiCall.null

\* the place made from the k-th document or search result of the last call
\* carries the default of every metadata field the document lacks
DefaultsFilled(k) ==
    LET m == apiCall.given[k].metadata
        p == apiCall.places[k]
    IN  /\ (~m.present \/ m.latitude = Undef) => p.latitude = Num(0)
        /\ (~m.present \/ m.longitude = Undef) => p.longitude = Num(0)
        /\ (~m.present \/ m.place_type = UNDEF) => p.place_type = "unknown"
        /\ (~m.present \/ m.confidence = Undef) =>
               (p.confidence_score = Num(0) /\ p.confidence_level = "low")
        /\ (~m.present \/ m.verse_references = Undef) => p.verse_references = Arr(<<>>)
        /\ (~m.present \/ m.alternate_names = Undef) => p.alternate_names = Arr(<<>>)

\* C16: a document or search result whose metadata object is missing or empty
\* is transformed without failing, and every metadata field that is missing
\* gets its fallback: latitude 0, longitude 0, place_type "unknown",
\* confidence_score 0 with confidence_level "low", empty verse_references and
\* alternate_names.
C16_MissingMetadataDefaults ==
    (apiCall.fn \in {"getPlaceDetails", "searchPlacesByName"}
        /\ apiCall.status \in 200..299) =>
        /\ (\A k \in 1..Len(apiCall.given) :
               LET m == apiCall.given[k].metadata
               IN  ~m.present \/ m = EmptyMetadata) => apiCall.outcome = "returns"
        /\ apiCall.outcome = "returns" =>
               /\ Len(apiCall.places) = Len(apiCall.given)
               /\ \A k \in 1..Len(apiCall.given) : DefaultsFilled(k)

\* a document or search result whose metadata is missing or empty was turned
\* into a place
C16_Witness ==
    /\ apiCall.fn \in {"getPlaceDetails", "searchPlacesByName"}
    /\ apiCall.outcome = "returns"
    /\ apiCall.places # <<>>
    /\ \E k \in 1..Len(apiCall.given) :
           \/ ~apiCall.given[k].metadata.present
           \/ apiCall.given[k].metadata = EmptyMetadata

\* C20 (as claimed): every place of the displayed list has the selected place
\* type, unless that is "all", and the selected confidence level, unless that
\* is "all".
C20_FiltersCombine ==
    \A i \in 1..Len(filteredPlaces) :
        /\ selectedPlaceType # "all" => filteredPlaces[i].place_type = selectedPlaceType
        /\ selectedConfidence # "all" =>
               filteredPlaces[i].confidence_level = selectedConfidence

(***************************************************************************)
(* Properties of the exports                                               *)
(***************************************************************************)
\* A CSV reader after RFC 4180: records end at a line break, fields at a comma;
\* a field that opens with a double quote runs to the closing quote, a doubled
\* quote inside it stands for one quote.
RECURSIVE UnquotedLen(_)
\* the number of characters before the next comma or line break
UnquotedLen(cs) ==
    IF cs = <<>> \/ Head(cs) \in {",", "\n"} THEN 0 ELSE 1 + UnquotedLen(Tail(cs))

RECURSIVE QuotedScan(_)
\* the text of a quoted field whose opening quote was read, and the number of
\* characters it takes up, closing quote included
QuotedScan(cs) ==
    IF cs = <<>> THEN [value |-> <<>>, n |-> 0]
    ELSE IF Head(cs) # "\""
    THEN LET r == QuotedScan(Tail(cs))
         IN  [value |-> <<Head(cs)>> \o r.value, n |-> r.n + 1]
    ELSE IF Len(cs) > 1 /\ cs[2] = "\""
    THEN LET r == QuotedScan(Tail(Tail(cs)))
         IN  [value |-> <<"\"">> \o r.value, n |-> r.n + 2]
    ELSE [value |-> <<>>, n |-> 1]

\* the field at the head of cs and the number of characters it takes up
ParseField(cs) ==
    IF cs # <<>> /\ Head(cs) = "\""
    THEN LET q == QuotedScan(Tail(cs))
             after == SubSeq(cs, q.n + 2, Len(cs))
             k == UnquotedLen(after)
         IN  [value |-> q.value \o SubSeq(after, 1, k), n |-> 1 + q.n + k]
    ELSE LET k == UnquotedLen(cs)
         IN  [value |-> SubSeq(cs, 1, k), n |-> k]

RECURSIVE CsvScan(_, _, _)
CsvScan(cs, record, records) ==
    LET f == ParseField(cs)
        rest == SubSeq(cs, f.n + 1, Len(cs))
    IN  IF rest = <<>> THEN Append(records, Append(record, f.value))
        ELSE IF Head(rest) = ","
        THEN CsvScan(Tail(rest), Append(record, f.value), records)
        ELSE CsvScan(Tail(rest), <<>>, Append(records, Append(record, f.value)))

ParseCSV(cs) == CsvScan(cs, <<>>, <<>>)

RECURSIVE SplitLines(_)
SplitLines(cs) ==
    LET line == TakeUntil(cs, "\n")
    IN  IF Len(line) = Len(cs) THEN <<line>>
        ELSE <<line>> \o SplitLines(SubSeq(cs, Len(line) + 2, Len(cs)))

LastDownload == downloads[Len(downloads)]

\* C12 (as claimed): reading the CSV file back gives the header and one record
\* of seven fields per result, whose Reference, Translation and Text are the
\* result's verse_ref, translation and text.
C12_CsvRoundTrip ==
    (lastExport.kind = "csv" /\ lastExport.produced) =>
        LET recs == ParseCSV(LastDownload.content)
        IN  /\ Len(recs) = Len(searchResults) + 1
            /\ \A i \in 1..Len(searchResults) :
                   /\ Len(recs[i + 1]) = 7
                   /\ recs[i + 1][1] = searchResults[i].verse_ref
                   /\ recs[i + 1][5] = searchResults[i].translation
                   /\ recs[i + 1][7] = searchResults[i].text

\* C13: the text file holds, for the i-th result, the line
\* "i. <verse_ref> (<TRANSLATION>)" and right after it a line that reads, after
\* its indentation, "Similarity: p%" with p the similarity in whole percent,
\* rounded to the nearest.
C13_TextLines ==
    (lastExport.kind = "text" /\ lastExport.produced) =>
        LET lines == SplitLines(LastDownload.content)
        IN  \A i \in 1..Len(searchResults) :
                \E j \in 1..(Len(lines) - 1) :
                    /\ lines[j] = Flatten(<<toStringNat(i), <<".", " ">>,
                                            searchResults[i].verse_ref, <<" ", "(">>,
                                            toUpperCase(searchResults[i].translation),
                                            <<")">>>>)
                    /\ \E p \in 0..100 :
                           /\ 10 * p - 5 <= searchResults[i].similarity
                           /\ searchResults[i].similarity < 10 * p + 5
                           /\ TrimStart(lines[j + 1]) =
                                  Flatten(<<<<"S", "i", "m", "i", "l", "a", "r", "i", "t",
                                              "y", ":", " ">>, toStringNat(p), <<"%">>>>)

\* the example of the claim: Psalms 23:1, kjv, 0.87 exported first
C13_Witness ==
    /\ lastExport.kind = "text"
    /\ lastExport.produced
    /\ searchResults # <<>>
    /\ searchResults[1].similarity = 870
    /\ LET lines == SplitLines(LastDownload.content)
       IN  /\ lines[8] = <<"1", ".", " ", "P", "s", "a", "l", "m", "s", " ", "2", "3", ":", "1", " ", "(", "K", "J", "V", ")">>
           /\ lines[9] = <<" ", " ", " ", "S", "i", "m", "i", "l", "a", "r", "i", "t", "y", ":", " ", "8", "7", "%">>

\* C14: with an empty result list an export handler produces no file and
\* changes nothing of the component's or the stores' state.
C14_EmptyExportNoOp ==
    [][searchResults = <<>> =>
          /\ downloads' = downloads
          /\ ~lastExport'.produced
          /\ UNCHANGED <<searchVars, cacheVars, pageVars>>]_vars

\* all three handlers have run over an empty list and there is no file
C14_Witness ==
    /\ searchResults = <<>>
    /\ exportsTried = {"text", "json", "csv"}
    /\ downloads = <<>>

\* C5: a fetchBiblicalPlaces call with a place type or a confidence level
\* never reads the listing cache; it always asks the collaborator.
C5_FilteredBypassesCache ==
    (/\ lastCall.fn = "fetchBiblicalPlaces"
     /\ \/ FilterSupplied(lastCall.params.placeType)
        \/ FilterSupplied(lastCall.params.confidenceLevel)) =>
        /\ ~lastCall.hit
        /\ lastCall.provider
        /\ Len(pendingFetch) > 0
        /\ pendingFetch[Len(pendingFetch)] = lastCall.params

\* a filtered call went to the collaborator while the unfiltered cache was warm
C5_Witness ==
    /\ lastCall.fn = "fetchBiblicalPlaces"
    /\ lastCall.params.placeType = "mountain"
    /\ lastCall.had
    /\ lastCall.age < 10 * 60 * 1000
    /\ lastCall.provider

(***************************************************************************)
(* Properties of getConfidenceLevel                                        *)
(***************************************************************************)
\* C6: getConfidenceLevel is total: every score, zero and negatives included,
\* gets "high" iff s >= 300, "moderate" iff 80 <= s < 300, "low" iff s < 80.
C6_ConfidenceThresholds ==
    level # "none" =>
        /\ level \in {"high", "moderate", "low"}
        /\ level = "high" <=> score >= 300
        /\ level = "moderate" <=> (80 <= score /\ score < 300)
        /\ level = "low" <=> score < 80

\* a negative score was classified
C6_Witness ==
    /\ level = "low"
    /\ score < 0

====
